---- MODULE Spec2Model ----
(***************************************************************************)
(* Model of the zasr streaming speech-recognition server: one WebSocket    *)
(* connection, its ZAsrConnection session object, the control executor     *)
(* (io_conn_, one thread) and the work executor (io_work_, worker threads).*)
(*                                                                         *)
(* Text frames are handled synchronously on the control thread, binary     *)
(* frames are posted to the work executor, every outbound event is posted  *)
(* to the control executor as a send task.  The session object is shared   *)
(* by the control thread and the workers; only the accesses under          *)
(* buffer_mutex_ are atomic, so a handler is split where it touches shared *)
(* fields without the lock.                                                *)
(*                                                                         *)
(* The VAD, the recognizers and the punctuator are external libraries:     *)
(* their answers are nondeterministic choices.  ClientConfig's itn and     *)
(* silence options only parameterise those libraries and are not modelled; *)
(* float_buffer_ is never filled by the code and is left out.              *)
(***************************************************************************)
EXTENDS Integers, Sequences, FiniteSets, TLC

\* ---------------------------------------------------------------- bounds
MaxFrames == 4          \* frames the client sends on the connection
MaxText == 3            \* of which text frames
MaxBinary == 2          \* of which binary frames
NumWorkers == 1         \* worker threads of the work executor
ShortFrames == 3        \* frames of a short exchange, ill-typed names included
PoolFrames == 3         \* frames sent to a server with one more worker thread
MaxConnections == 2     \* config_.max_connections of the modelled server
MapFrames == 2          \* frames sent while other connections open and close
TimeoutSeconds == 2     \* config_.connection_timeout_seconds of the modelled server
ReapFrames == 2         \* frames sent to a server whose reaper timer runs
TextFrames == 3         \* frames sent to a server that punctuates
MaxRuns == 3            \* runs of the voice-print tool
VadFrames == 3          \* frames sent to a server that decodes with a VAD
OnlineFrames == 3       \* frames sent to a server with a streaming recognizer
MaxIdNum == 4           \* largest counter value an id is generated from

\* ------------------------------------------------------ program constants
SamplesPerMs == 16      \* SamplesToMs: 16 kHz, 16 samples per millisecond
BytesPerSample == 2     \* s16le
TrimWindows == 10       \* silence trimming keeps 10 VAD windows
DefaultRate == 16000
STATUS_OK == 20000000
ERR_INVALID_STATE_FOR_START_TRANSCRIPTION == 1001
ERR_UNSUPPORTED_AUDIO_FORMAT == 1002
ERR_UNSUPPORTED_SAMPLE_RATE == 1003
ERR_ERROR_PROCESSING_START_TRANSCRIPTION == 1004
ERR_TRANSCRIPTION_NOT_STARTED == 1005
ERR_TRANSCRIPTION_NOT_STARTED_OR_WRONG_STATE == 1006
ERR_INVALID_JSON_FORMAT == 2001
ERR_MISSING_OR_INVALID_HEADER == 2003
ERR_MISSING_NAME_IN_HEADER == 2004
ERR_UNSUPPORTED_MESSAGE_NAME == 2005
ERR_ERROR_PROCESSING_PROTOCOL_MESSAGE == 2006
ERR_PROCESSING_AUDIO == 41040009

\* server configuration of the modelled deployments
VadWindowSize == 3      \* vad_window_size_ = sample_rate * vad_window_size_ms / 1000

\* ------------------------------------------------------------ input sets
FrameBytes == {1, 32, 33}         \* lengths of the binary frames sent
Texts == {"a"}                    \* hypotheses a recognizer returns
RecognizerTypes == {"kSenseVoice", "kStreamingZipformer"}
\* A payload key is the set of its values: {} when the payload lacks the key
\* (no payload modelled names a session_id: the server generates it).
\* bad_type names the keys whose JSON value has the wrong type (fmt not a
\* string, rate not a number): json::value throws type_error for them.
BeginPayloads ==
  { [fmt |-> {},      rate |-> {},      session_id |-> {},             bad_type |-> {}],
    [fmt |-> {"pcm"}, rate |-> {16000}, session_id |-> {},             bad_type |-> {}],
    [fmt |-> {"wav"}, rate |-> {},      session_id |-> {},             bad_type |-> {}],
    [fmt |-> {},      rate |-> {8000},  session_id |-> {},             bad_type |-> {}],
    [fmt |-> {"wav"}, rate |-> {8000},  session_id |-> {},             bad_type |-> {}],
    [fmt |-> {"pcm"}, rate |-> {8000},  session_id |-> {},             bad_type |-> {"fmt"}],
    [fmt |-> {"pcm"}, rate |-> {8000},  session_id |-> {},             bad_type |-> {"rate"}] }
InvalidTextKinds == {"BadJson", "Other"}
CreateOutcomes == {"ok", "throw_vad", "throw_asr"}

\* --------------------------------------------------------------- state
VARIABLES
  config,      \* ZAsrServer::config_ (fixed at construction)
  conn,        \* the ZAsrConnection object of the connection
  inMap,       \* the connection handle is a key of ZAsrServer::connections_
  events,      \* every event handed to ZAsrServer::SendMessage, in order
  nRun,        \* number of posted send tasks the control executor has run
  wire,        \* events the WebSocket library accepted for sending
  sockState,   \* WebSocket connection: "open", "closing", "closed"
  closeCalls,  \* reasons of the ws_server_.close calls, in order
  cpc,         \* control thread: "idle" or its position inside a handler
  cargs,       \* control thread: SendSentenceEnd arguments already read
  workQueue,   \* binary frames posted to io_work_ and not yet dequeued
  wpc,         \* position of each worker in HandleBinaryMessage
  wframe,      \* frame each worker is handling
  nText,       \* inbound text frames delivered so far
  nBinary,     \* inbound binary frames delivered so far
  limit,       \* frames the client sends on the connection in this behaviour
  idleSeconds, \* whole seconds since last_activity_time_ (saturating)
  armed,       \* timeout_timer_ has a wait pending
  connections_,\* handles of the other connections in ZAsrServer::connections_
  refused,     \* open connections that OnOpen gave no session object
  dropped,     \* frames OnMessage received for a handle without session
  spc,         \* position of the thread that runs ZAsrServer::Stop
  disk,        \* the voice-print directory: index file and embedding files
  db,          \* the VoicePrintDatabase objects besides the modelled session's
  cli,         \* the run of the voice-print command line tool
  locks        \* owners of the two mutexes and each thread's pending steps

\* the server's state besides the modelled session: the rest of the map, Stop
toolVars == <<db, cli, locks>>

storeVars == <<disk, toolVars>>

mapVars == <<connections_, refused, dropped, spc, toolVars>>

sessionVars == <<config, conn, inMap, events, nRun, wire, sockState,
                 closeCalls, cpc, cargs, workQueue, wpc, wframe, nText,
                 nBinary, limit, idleSeconds, armed>>

vars == <<config, conn, inMap, events, nRun, wire, sockState, closeCalls,
          cpc, cargs, workQueue, wpc, wframe, nText, nBinary,
          limit, idleSeconds, armed, mapVars, disk>>

\* the threads of the work executor
Workers == DOMAIN wpc

\* ----------------------------------------------------------- events
\* One outbound protocol message: header name and status, and the payload
\* fields idx, time, begin, text, sid (0 / "" where the message has none);
\* speaker_id stands for the pair speaker_id / speaker, << >> when absent.
Ev(name, status, idx, time, begin, text, sid) ==
  [name |-> name, status |-> status, idx |-> idx, time |-> time,
   begin |-> begin, text |-> text, sid |-> sid, speaker_id |-> << >>]

\* A "world" is the session object together with the events emitted so far
\* by the handler that is running, and the voice-print directory:
\* [c |-> session, out |-> <<events>>, disk |-> directory].
SendProtocolMessage(w, ev) == [w EXCEPT !.out = Append(@, ev)]

SendError(w, status) ==
  SendProtocolMessage(w, Ev("Failed", status, 0, 0, 0, "", ""))

SendSentenceBegin(w, index, time_ms) ==
  SendProtocolMessage(w, Ev("SentenceBegin", STATUS_OK, index, time_ms, 0, "", ""))

\* if (enable_speaker_identification_ && !current_speaker_id_.empty())
SpeakerFields(c, ev) ==
  IF c.enable_speaker_identification_ /\ c.current_speaker_id_ # << >>
    THEN [ev EXCEPT !.speaker_id = c.current_speaker_id_]
    ELSE ev

SendTranscriptionResultChanged(w, index, time_ms, result) ==
  SendProtocolMessage(w, SpeakerFields(w.c,
    Ev("Result", STATUS_OK, index, time_ms, 0, result, "")))

\* The punctuator's answer for a non-empty text.
Punctuated(text) == text \o "."

\* a punctuation step that has no fallback for a punctuator that throws
AddPunctuation_noFallback(c, text, punct_ok) ==
  IF ~c.punctuation_ \/ text = "" THEN text ELSE Punctuated(text)

\* punct_ok: the punctuator call returns (TRUE) or throws (FALSE).
AddPunctuation(c, text, punct_ok) ==
  IF ~c.punctuation_ \/ text = "" THEN text
  ELSE IF punct_ok THEN Punctuated(text) ELSE text

SendSentenceEnd(w, index, time_ms, begin_time, result, punct_ok) ==
  SendProtocolMessage(w, SpeakerFields(w.c,
    Ev("SentenceEnd", STATUS_OK, index, time_ms, begin_time,
       AddPunctuation(w.c, result, punct_ok), "")))

SendTranscriptionCompleted(w) ==
  SendProtocolMessage(w, Ev("Completed", STATUS_OK, 0, 0, 0, "", ""))

\* ------------------------------------------------------ pure helpers
SamplesToMs(samples) == samples \div SamplesPerMs

\* a sample count that rounds the odd trailing byte up
NumSamples_roundsUp(length) == (length + 1) \div BytesPerSample

\* HandleBinaryMessage: size_t num_samples = length / 2
NumSamples(length) == length \div BytesPerSample

\* The samples of the model carry the number of the frame they came with,
\* not a value, so the scaling by 1/32768 has nothing to act on: the
\* result has one float per int16 sample, in the same order.
Int16ToFloat(int16_samples) ==
  [i \in 1..Len(int16_samples) |-> int16_samples[i]]

\* the last n elements of a vector
Tail_n(v, n) == SubSeq(v, Len(v) - n + 1, Len(v))

\* nlohmann json::value(key, default)
JsonValue(field, default) ==
  IF field = {} THEN default ELSE CHOOSE x \in field : TRUE

\* a FromJson that leaves sample_rate at what it was
FromJson_keepsRate(cfg, payload) ==
  IF "fmt" \in payload.bad_type THEN [cfg |-> cfg, throws |-> TRUE]
  ELSE [cfg |-> [cfg EXCEPT !.format = JsonValue(payload.fmt, "pcm")],
        throws |-> FALSE]

\* ClientConfig::FromJson assigns format, then sample_rate; a value of the
\* wrong type throws out of the assignment it is read for.
FromJson(cfg, payload) ==
  IF "fmt" \in payload.bad_type THEN [cfg |-> cfg, throws |-> TRUE]
  ELSE LET c1 == [cfg EXCEPT !.format = JsonValue(payload.fmt, "pcm")]
       IN IF "rate" \in payload.bad_type THEN [cfg |-> c1, throws |-> TRUE]
          ELSE [cfg |-> [c1 EXCEPT !.sample_rate =
                                      JsonValue(payload.rate, DefaultRate)],
                throws |-> FALSE]

NoSentence == [index |-> 0, begin_time |-> 0, current_time |-> 0,
               result |-> "", active |-> FALSE]

\* ------------------------------------------------- the voice-print store
\* An id is the sequence of the pieces of its string: "speaker-7" is
\* <<"speaker-", "7">>, "speaker-03" is <<"speaker-", "0", "3">>, and the
\* empty string is << >>.
Digits == <<"0", "1", "2", "3", "4", "5", "6", "7", "8", "9">>

IsDigit(ch) == \E d \in DOMAIN Digits : Digits[d] = ch

DigitValue(ch) == (CHOOSE d \in DOMAIN Digits : Digits[d] = ch) - 1

\* std::to_string of a number that is not negative
RECURSIVE to_string(_)
to_string(n) ==
  IF n < 10 THEN <<Digits[n + 1]>>
  ELSE to_string(n \div 10) \o <<Digits[(n % 10) + 1]>>

RECURSIVE StoiDigits(_, _)
StoiDigits(s, acc) ==
  IF s = << >> \/ ~IsDigit(Head(s)) THEN acc
  ELSE StoiDigits(Tail(s), acc * 10 + DigitValue(Head(s)))

\* std::stoi: the number the leading digits spell, whatever follows them;
\* it throws when the string does not begin with a digit
Stoi(s) ==
  IF s = << >> \/ ~IsDigit(Head(s))
    THEN [throws |-> TRUE, value |-> 0]
    ELSE [throws |-> FALSE, value |-> StoiDigits(s, 0)]

\* the numbers of the ids that begin with the prefix and parse
Numbers(ids, prefix) ==
  { Stoi(Tail(id)).value :
      id \in { x \in ids : x # << >> /\ Head(x) = prefix /\ ~Stoi(Tail(x)).throws } }

SetMax(S) == CHOOSE m \in S : \A x \in S : x <= m

\* LoadIndex: if (num >= next_speaker_num_) next_speaker_num_ = num + 1, for
\* every id read
AdvancePast(next, ids, prefix) ==
  LET nums == Numbers(ids, prefix)
  IN IF nums = {} \/ SetMax(nums) < next THEN next ELSE SetMax(nums) + 1

\* a VoicePrintDatabase object right after its constructor
NewDatabase ==
  [voice_prints_ |-> {}, unknown_speakers_ |-> {},
   next_speaker_num_ |-> 1, next_unknown_num_ |-> 1]

\* a database directory that was never written
NoStore == [has_index |-> FALSE, voice_prints |-> {}, unknown_speakers |-> {},
            embeddings |-> {}]

\* the directory of a server: the voice-print tool enrolled speaker-1
EnrolledStore ==
  [has_index |-> TRUE, voice_prints |-> {<<"speaker-", "1">>},
   unknown_speakers |-> {}, embeddings |-> {<<"speaker-", "1">>}]

\* Load / LoadIndex: without an index file nothing is read
Load(b, d) ==
  IF ~d.has_index THEN b
  ELSE [b EXCEPT
          !.voice_prints_ = @ \cup d.voice_prints,
          !.next_speaker_num_ = AdvancePast(@, d.voice_prints, "speaker-"),
          !.unknown_speakers_ = @ \cup d.unknown_speakers,
          !.next_unknown_num_ = AdvancePast(@, d.unknown_speakers, "unknown-")]

\* SaveIndex writes the whole index from the object's maps
SaveIndex(b, d) ==
  [d EXCEPT !.has_index = TRUE,
            !.voice_prints = b.voice_prints_,
            !.unknown_speakers = b.unknown_speakers_]

\* ~VoicePrintDatabase: Save() unless both maps are empty
Destroy(b, d) ==
  IF b.voice_prints_ # {} \/ b.unknown_speakers_ # {} THEN SaveIndex(b, d) ELSE d

\* AddVoicePrint: the embedding file is written, then the entry is set
AddVoicePrint(b, d, id) ==
  [db |-> [b EXCEPT !.voice_prints_ = @ \cup {id}],
   disk |-> [d EXCEPT !.embeddings = @ \cup {id}]]

\* RemoveVoicePrint: false for an id the object does not hold; otherwise the
\* embedding file is deleted and the entry erased
RemoveVoicePrint(b, d, id) ==
  IF id \notin b.voice_prints_ THEN [db |-> b, disk |-> d, ok |-> FALSE]
  ELSE [db |-> [b EXCEPT !.voice_prints_ = @ \ {id}],
        disk |-> [d EXCEPT !.embeddings = @ \ {id}],
        ok |-> TRUE]

\* do { id = prefix + to_string(next++) } while (the map holds id)
RECURSIVE GenerateId(_, _, _)
GenerateId(prefix, next, ids) ==
  LET id == <<prefix>> \o to_string(next)
  IN IF id \in ids THEN GenerateId(prefix, next + 1, ids)
     ELSE [id |-> id, next |-> next + 1]

\* a generator that returns the first candidate
GenerateSpeakerId_noLoop(b) ==
  [id |-> <<"speaker-">> \o to_string(b.next_speaker_num_),
   db |-> [b EXCEPT !.next_speaker_num_ = @ + 1]]

GenerateSpeakerId(b) ==
  LET g == GenerateId("speaker-", b.next_speaker_num_, b.voice_prints_)
  IN [id |-> g.id, db |-> [b EXCEPT !.next_speaker_num_ = g.next]]

GenerateUnknownSpeakerId(b) ==
  LET g == GenerateId("unknown-", b.next_unknown_num_, b.unknown_speakers_)
  IN [id |-> g.id, db |-> [b EXCEPT !.next_unknown_num_ = g.next]]

\* AddUnknownSpeaker: a new id, its embedding file, its entry
AddUnknownSpeaker(b, d) ==
  LET g == GenerateUnknownSpeakerId(b)
  IN [id |-> g.id,
      db |-> [g.db EXCEPT !.unknown_speakers_ = @ \cup {g.id}],
      disk |-> [d EXCEPT !.embeddings = @ \cup {g.id}]]

\* the session object right after ZAsrConnection's constructor
NewConnection ==
  [state_ |-> "CONNECTED", is_active_ |-> TRUE, session_id_ |-> "",
   client_config_ |-> [format |-> "pcm", sample_rate |-> DefaultRate],
   audio_buffer_ |-> <<>>, total_samples_ |-> 0, total_ms_ |-> 0,
   vad_ |-> FALSE, vad_offset_ |-> 0, speech_started_ |-> FALSE,
   vad_IsDetected |-> FALSE, vad_NonEmpty |-> FALSE,
   offline_recognizer_ |-> FALSE, online_recognizer_ |-> FALSE,
   offline_stream_ |-> FALSE, online_stream_ |-> FALSE,
   online_text |-> "",
   streamed_offset_ |-> 0, use_online_recognizer_ |-> FALSE,
   punctuation_ |-> FALSE,
   enable_speaker_identification_ |-> FALSE, current_speaker_id_ |-> << >>,
   speaker_identifier_ |-> NewDatabase,
   current_sentence_ |-> NoSentence, current_sentence_audio_ |-> <<>>,
   sentence_counter_ |-> 0]

World(c) == [c |-> c, out |-> <<>>, disk |-> disk]

\* ------------------------------------------- pipeline, offline + VAD
\* a sentence that is opened without its SentenceBegin
OpenSentence_noBegin(w) ==
  LET n == w.c.sentence_counter_ + 1
      c1 == [w.c EXCEPT !.sentence_counter_ = n,
                        !.current_sentence_ =
                           [index |-> n, begin_time |-> w.c.total_ms_,
                            current_time |-> w.c.total_ms_,
                            result |-> "", active |-> TRUE]]
  IN [w EXCEPT !.c = c1]

\* Opens a sentence: the counter is incremented and SentenceBegin is sent
\* with the current millisecond clock.
OpenSentence(w) ==
  LET n == w.c.sentence_counter_ + 1
      c1 == [w.c EXCEPT !.sentence_counter_ = n,
                        !.current_sentence_ =
                           [index |-> n, begin_time |-> w.c.total_ms_,
                            current_time |-> w.c.total_ms_,
                            result |-> "", active |-> TRUE]]
  IN SendSentenceBegin([w EXCEPT !.c = c1], n, c1.total_ms_)

\* What the VAD may answer after one more window: IsDetected() is either
\* value, and a completed segment can be queued only if speech was in
\* progress before the window.
VadOutcomes(c) ==
  { [det |-> d, push |-> p] :
      d \in BOOLEAN, p \in (IF c.vad_IsDetected THEN BOOLEAN ELSE {FALSE}) }

VadLoopCond(w) ==
  w.c.vad_offset_ + VadWindowSize <= Len(Int16ToFloat(w.c.audio_buffer_))

\* one iteration of the VAD window loop, for one answer of the VAD
VadWindow(w, o) ==
  LET c1 == [w.c EXCEPT !.vad_IsDetected = o.det,
                        !.vad_NonEmpty = @ \/ o.push]
      w1 == [w EXCEPT !.c = c1]
      w2 == IF ~c1.speech_started_ /\ c1.vad_IsDetected
              THEN OpenSentence([w1 EXCEPT !.c.speech_started_ = TRUE,
                                           !.c.streamed_offset_ = 0,
                                           !.c.offline_stream_ = TRUE])
              ELSE w1
  IN [w2 EXCEPT !.c.vad_offset_ = @ + VadWindowSize]

\* the whole loop: every world the loop can end in
RECURSIVE VadLoop(_)
VadLoop(S) ==
  IF \A w \in S : ~VadLoopCond(w) THEN S
  ELSE VadLoop({ w \in S : ~VadLoopCond(w) } \cup
               UNION { { VadWindow(w, o) : o \in VadOutcomes(w.c) } :
                       w \in { x \in S : VadLoopCond(x) } })

\* a trimming that keeps the oldest samples
TrimSilence_keepsOldest(w) ==
  LET c == w.c
      size == Len(c.audio_buffer_)
      new_size == TrimWindows * VadWindowSize
      samples_to_remove == size - new_size
  IN IF ~c.speech_started_ /\ size > new_size
       THEN [w EXCEPT
               !.c.streamed_offset_ =
                  IF @ > samples_to_remove THEN @ - samples_to_remove ELSE 0,
               !.c.vad_offset_ =
                  IF @ > samples_to_remove THEN @ - samples_to_remove ELSE 0,
               !.c.audio_buffer_ = SubSeq(@, 1, new_size)]
       ELSE w

\* a trimming that cuts the buffer and leaves the offsets where they were
TrimSilence_keepsOffsets(w) ==
  LET c == w.c
      size == Len(c.audio_buffer_)
      new_size == TrimWindows * VadWindowSize
  IN IF ~c.speech_started_ /\ size > new_size
       THEN [w EXCEPT !.c.audio_buffer_ = Tail_n(@, new_size)]
       ELSE w

\* silence trimming: keep the last 10 windows, move both offsets back
TrimSilence(w) ==
  LET c == w.c
      size == Len(c.audio_buffer_)
      new_size == TrimWindows * VadWindowSize
      samples_to_remove == size - new_size
  IN IF ~c.speech_started_ /\ size > new_size
       THEN [w EXCEPT
               !.c.streamed_offset_ =
                  IF @ > samples_to_remove THEN @ - samples_to_remove ELSE 0,
               !.c.vad_offset_ =
                  IF @ > samples_to_remove THEN @ - samples_to_remove ELSE 0,
               !.c.audio_buffer_ = Tail_n(@, new_size)]
       ELSE w

\* feed the decoder stream; elapsed: more than 200 ms of wall clock since
\* the last partial; text: what the decode returns
FeedAndUpdate(w, elapsed, text) ==
  LET c == w.c
      size == Len(c.audio_buffer_)
  IN IF c.speech_started_ /\ c.offline_stream_ /\ size > 0
       THEN LET off == IF c.streamed_offset_ <= size THEN c.streamed_offset_ ELSE 0
                new_samples == size - off
                w1 == [w EXCEPT !.c.streamed_offset_ = off + new_samples]
            IN IF elapsed
                 THEN SendTranscriptionResultChanged(
                        [w1 EXCEPT !.c.current_sentence_.result = text,
                                   !.c.current_sentence_.current_time = c.total_ms_],
                        c.current_sentence_.index, c.total_ms_, text)
                 ELSE w1
       ELSE w

\* The speaker identifier is asked about a segment that is not empty by a
\* session that has one; its answer replaces current_speaker_id_ (an empty
\* id clears it).
Identifies(c, audio) == c.enable_speaker_identification_ /\ audio # << >>

\* what ExtractEmbedding and MatchSpeaker do with a segment: no embedding,
\* no enrolled speaker close enough (<< >>), or the id of the one that is
NoEmbedding == <<"no embedding">>

\* ZSpeakerIdentifier::ProcessSegment of the session's identifier: without a
\* match an identifier that tracks new speakers adds an unknown speaker to
\* its database, which writes the embedding file
ProcessSegment(w, answer) ==
  IF answer = NoEmbedding THEN [id |-> << >>, w |-> w]
  ELSE IF answer # << >> THEN [id |-> answer, w |-> w]
  ELSE IF ~config.auto_track_new_speakers THEN [id |-> << >>, w |-> w]
  ELSE LET r == AddUnknownSpeaker(w.c.speaker_identifier_, w.disk)
       IN [id |-> r.id,
           w |-> [w EXCEPT !.c.speaker_identifier_ = r.db, !.disk = r.disk]]

\* the identification before a SentenceEnd
IdentifySpeaker(w, audio, answer) ==
  IF Identifies(w.c, audio)
    THEN LET p == ProcessSegment(w, answer)
         IN [p.w EXCEPT !.c.current_speaker_id_ = p.id]
    ELSE w

\* drain the VAD's segment queue; a drained segment ends the sentence
PopSegments(w, text, punct_ok, speaker) ==
  LET c == w.c
  IN IF c.vad_ /\ c.vad_NonEmpty
       THEN LET w1 == [w EXCEPT !.c.vad_NonEmpty = FALSE]
                w2 == IF c.offline_stream_
                        THEN LET w3 == SendSentenceEnd(
                                         IdentifySpeaker(
                                           [w1 EXCEPT !.c.current_sentence_.result = text,
                                                      !.c.current_sentence_.current_time = c.total_ms_],
                                           c.audio_buffer_, speaker),
                                         c.current_sentence_.index, c.total_ms_,
                                         c.current_sentence_.begin_time, text, punct_ok)
                             IN [w3 EXCEPT !.c.speech_started_ = FALSE,
                                           !.c.streamed_offset_ = 0,
                                           !.c.offline_stream_ = FALSE,
                                           !.c.current_sentence_.active = FALSE]
                        ELSE w1
            IN [w2 EXCEPT !.c.audio_buffer_ = <<>>, !.c.vad_offset_ = 0]
       ELSE w

\* The punctuator is asked only by a session that has one.
PunctAnswers(c) ==
  IF ~c.punctuation_ THEN {TRUE}
  ELSE IF config.punctuator = "works" THEN {TRUE}
  ELSE IF config.punctuator = "throws" THEN {FALSE}
  ELSE BOOLEAN

\* MatchSpeaker answers with a speaker id, or with none
SpeakerIds == {<< >>, <<"speaker-", "1">>}

\* (for an identifier that does not track new speakers a segment without
\* an embedding and one without a match end alike)
SpeakerAnswers(c) ==
  IF ~c.enable_speaker_identification_ THEN {<< >>}
  ELSE IF config.auto_track_new_speakers THEN SpeakerIds \cup {NoEmbedding}
  ELSE SpeakerIds

\* The answers of the external libraries during one offline pipeline run,
\* apart from the VAD's: elapsed (more than 200 ms since the last
\* partial), text / text2 (results of the partial and the final decode),
\* punct_ok.
OfflineOracles(c) ==
  [elapsed : BOOLEAN, text : Texts, text2 : Texts, punct_ok : PunctAnswers(c),
   speaker : SpeakerAnswers(c)]

\* ... and during one online run: IsReady, IsEndpoint, the decode result.
OnlineOracles(c) ==
  [ready : BOOLEAN, endpoint : BOOLEAN, text : Texts, punct_ok : PunctAnswers(c),
   speaker : SpeakerAnswers(c)]

\* every world ProcessOfflineMode can end in
ProcessOfflineMode(w) ==
  IF ~w.c.vad_ \/ ~w.c.offline_recognizer_ THEN {w}
  ELSE { PopSegments(FeedAndUpdate(TrimSilence(x), o.elapsed, o.text),
                     o.text2, o.punct_ok, o.speaker) :
           x \in VadLoop({w}), o \in OfflineOracles(w.c) }

\* --------------------------------------------------- pipeline, online
ProcessOnlineMode1(w, o) ==
  LET w1 == IF ~w.c.online_stream_
              THEN OpenSentence([w EXCEPT !.c.online_stream_ = TRUE,
                                          !.c.online_text = ""])
              ELSE w
      \* the samples are accumulated for speaker identification and fed
      w2 == [w1 EXCEPT !.c.current_sentence_audio_ = @ \o w1.c.audio_buffer_]
      \* IsReady: Decode, GetResult, Result when the text changed
      w3 == IF o.ready
              THEN LET w3a == [w2 EXCEPT !.c.online_text = o.text]
                   IN IF o.text # w2.c.current_sentence_.result
                        THEN SendTranscriptionResultChanged(
                               [w3a EXCEPT !.c.current_sentence_.result = o.text,
                                           !.c.current_sentence_.current_time = w2.c.total_ms_],
                               w2.c.current_sentence_.index, w2.c.total_ms_, o.text)
                        ELSE w3a
              ELSE w2
      \* IsEndpoint: final GetResult, SentenceEnd, Reset, next sentence
      w4 == IF o.endpoint
              THEN LET final == w3.c.online_text
                       w4a == SendSentenceEnd(
                                IdentifySpeaker(
                                  [w3 EXCEPT !.c.current_sentence_.result = final,
                                             !.c.current_sentence_.current_time = w3.c.total_ms_],
                                  w3.c.current_sentence_audio_, o.speaker),
                                w3.c.current_sentence_.index, w3.c.total_ms_,
                                w3.c.current_sentence_.begin_time, final, o.punct_ok)
                   IN OpenSentence([w4a EXCEPT !.c.online_text = "",
                                               !.c.current_sentence_audio_ = <<>>])
              ELSE w3
  IN [w4 EXCEPT !.c.audio_buffer_ = <<>>]

ProcessOnlineMode(w) ==
  IF ~w.c.online_recognizer_ THEN {w}
  ELSE { ProcessOnlineMode1(w, o) : o \in OnlineOracles(w.c) }

\* ProcessAudioBuffer, called with buffer_mutex_ held or taking it
ProcessAudioBuffer(w) ==
  IF ~w.c.is_active_ THEN {w}
  ELSE IF (w.c.use_online_recognizer_ /\ ~w.c.online_recognizer_) \/
          (~w.c.use_online_recognizer_ /\ ~w.c.offline_recognizer_) THEN {w}
  ELSE IF w.c.audio_buffer_ = <<>> THEN {w}
  ELSE IF w.c.use_online_recognizer_ THEN ProcessOnlineMode(w)
  ELSE ProcessOfflineMode(w)

\* ------------------------------------------------------------- Close
\* ZAsrConnection::Close takes no lock for state_: it is modelled in two
\* steps.  First the early return and state_ = CLOSING ...
CloseReturnsEarly(c) == c.state_ \in {"CLOSING", "CLOSED"}

CloseBegin(w) == [w EXCEPT !.c.state_ = "CLOSING"]

\* ... then the rest.  punct_ok is the punctuator's answer should a
\* SentenceEnd be sent.
CloseRest(w, punct_ok) ==
  LET w1 == [w EXCEPT !.c.is_active_ = FALSE,
                      !.c.audio_buffer_ = <<>>,
                      !.c.current_sentence_audio_ = <<>>,
                      !.c.vad_offset_ = 0]
      w2 == IF w1.c.current_sentence_.active
              THEN SendSentenceEnd(w1, w1.c.current_sentence_.index,
                                   w1.c.total_ms_,
                                   w1.c.current_sentence_.begin_time,
                                   w1.c.current_sentence_.result, punct_ok)
              ELSE w1
      w3 == IF w2.c.state_ # "CONNECTED"
              THEN SendTranscriptionCompleted(w2)
              ELSE w2
  IN [w3 EXCEPT !.c.vad_ = FALSE,
                !.c.offline_recognizer_ = FALSE,
                !.c.online_recognizer_ = FALSE,
                !.c.offline_stream_ = FALSE,
                !.c.online_stream_ = FALSE,
                !.c.state_ = "CLOSED"]

\* ------------------------------------------- HandleStartTranscription
\* The recognizer objects of a session, built from the server's config.
\* outcome "throw_vad" / "throw_asr": the constructor of the VAD / of the
\* recognizer throws; what was assigned before the throw stays assigned.
CreateRecognizers(w, outcome) ==
  IF config.recognizer_type = "kSenseVoice"
    THEN IF outcome = "throw_vad" THEN w
         ELSE LET w1 == [w EXCEPT !.c.vad_ = TRUE,
                                  !.c.vad_IsDetected = FALSE,
                                  !.c.vad_NonEmpty = FALSE]
              IN IF outcome = "throw_asr" THEN w1
                 ELSE [w1 EXCEPT !.c.offline_recognizer_ = TRUE,
                                 !.c.use_online_recognizer_ = FALSE]
    ELSE IF outcome = "throw_asr" THEN w
         ELSE [w EXCEPT !.c.online_recognizer_ = TRUE,
                        !.c.use_online_recognizer_ = TRUE]

generate_uuid == "uuid"

\* a state check that only refuses a session that is Started
InvalidStateForStart_onlyStarted(c) == c.state_ = "STARTED"

\* a state check that also refuses a session that kept the VAD of a Begin
\* that failed
InvalidStateForStart_leftoverVad(c) == c.state_ # "CONNECTED" \/ c.vad_

\* if (state_ != ConnectionState::CONNECTED)
InvalidStateForStart(c) == c.state_ # "CONNECTED"

\* the recognizer objects and, when configured, the punctuator
\* and the speaker identifier (one that fails to initialize is dropped and
\* leaves the session as a server without speaker identification does)
CreateAll(w) ==
  LET w2 == CreateRecognizers(w, "ok")
      w3 == IF config.enable_punctuation
              THEN [w2 EXCEPT !.c.punctuation_ = TRUE] ELSE w2
  IN IF config.enable_speaker_identification
       THEN [w3 EXCEPT !.c.enable_speaker_identification_ = TRUE,
                       !.c.speaker_identifier_ = Load(NewDatabase, w.disk)]
       ELSE [w3 EXCEPT !.c.enable_speaker_identification_ = FALSE]

\* session_id_, the Started response, state_ = STARTED
StartReply(w, payload) ==
  LET given == JsonValue(payload.session_id, "")
      sid == IF given = "" THEN generate_uuid ELSE given
      w4 == SendProtocolMessage([w EXCEPT !.c.session_id_ = sid],
                                Ev("Started", STATUS_OK, 0, 0, 0, "", sid))
  IN [w4 EXCEPT !.c.state_ = "STARTED"]

HandleStartTranscription(w, payload, outcome) ==
  IF InvalidStateForStart(w.c)
    THEN SendError(w, ERR_INVALID_STATE_FOR_START_TRANSCRIPTION)
  ELSE
    LET parsed == FromJson(w.c.client_config_, payload)
        w1 == [w EXCEPT !.c.client_config_ = parsed.cfg]
    IN IF parsed.throws
         THEN SendError(w1, ERR_ERROR_PROCESSING_START_TRANSCRIPTION)
       ELSE IF w1.c.client_config_.format # "pcm"
         THEN SendError(w1, ERR_UNSUPPORTED_AUDIO_FORMAT)
       ELSE IF w1.c.client_config_.sample_rate # 16000
         THEN SendError(w1, ERR_UNSUPPORTED_SAMPLE_RATE)
       ELSE IF outcome # "ok"
         THEN SendError(CreateRecognizers(w1, outcome),
                        ERR_ERROR_PROCESSING_START_TRANSCRIPTION)
       ELSE StartReply(CreateAll(w1), payload)

\* an error mapping that reports every bad text frame as bad JSON
InvalidTextStatus_alwaysJson(kind) == ERR_INVALID_JSON_FORMAT

\* HandleProtocolMessage for a text frame that is neither Begin nor End:
\* json::parse throws parse_error; the header or its name is missing; the
\* name is not a JSON string, so that std::string name = header["name"]
\* throws type_error; the name is another string
InvalidTextStatus(kind) ==
  CASE kind = "BadJson"  -> ERR_INVALID_JSON_FORMAT
    [] kind = "NoHeader" -> ERR_MISSING_OR_INVALID_HEADER
    [] kind = "NoName"   -> ERR_MISSING_NAME_IN_HEADER
    [] kind = "NameNotString" -> ERR_ERROR_PROCESSING_PROTOCOL_MESSAGE
    [] OTHER             -> ERR_UNSUPPORTED_MESSAGE_NAME

\* ----------------------------------------------------------- actions
\* OnMessage finds the session through the map; the library's own policy
\* for frames that arrive while it is closing the connection is not part
\* of the repository, so frames arrive as long as the handle is mapped.
\* io_conn_ runs handlers and posted tasks until Stop() stops it
ConnRuns == spc \notin {"join", "stopped"}

\* io_work_ starts posted tasks and timer handlers until Stop() stops it
WorkRuns == spc \notin {"join", "stopped"}

CanDeliver == inMap /\ cpc = "idle" /\ nText + nBinary < limit

\* a sender that calls the library's send on the calling thread
Emit_sendsDirectly(w) == /\ conn' = w.c
                         /\ events' = events \o w.out
                         /\ wire' = wire \o w.out
                         /\ disk' = w.disk

\* ZAsrConnection::SendMessage hands each event to ZAsrServer::SendMessage,
\* which posts the send task and passes nothing to the socket itself.
Emit(w) == /\ conn' = w.c
           /\ events' = events \o w.out
           /\ wire' = wire
           /\ disk' = w.disk

\* UpdateActivityTime
UpdateActivityTime == idleSeconds' = 0

\* text frame {name: Begin} with the given payload; outcome is what the
\* constructors of the recognizer objects do when they are reached
BeginStep(payload, outcome) ==
  /\ CanDeliver
  /\ nText < MaxText
  /\ outcome = "throw_vad" => config.recognizer_type = "kSenseVoice"
  /\ Emit(HandleStartTranscription(World(conn), payload, outcome))
  /\ nText' = nText + 1
  /\ UpdateActivityTime
  /\ UNCHANGED <<config, limit, armed, mapVars, inMap, nRun, sockState, closeCalls, cpc, cargs,
                 workQueue, wpc, wframe, nBinary>>

OnMessageBegin ==
  \E payload \in BeginPayloads, outcome \in CreateOutcomes :
    BeginStep(payload, outcome)

\* The same handler step by step, as the reaper and Stop() see it from
\* their threads.  OnMessage: GetConnection finds the session in the map.
BeginLookup(payload) ==
  /\ CanDeliver
  /\ nText < MaxText
  /\ cargs' = <<payload>>
  /\ cpc' = "begin_check"
  /\ nText' = nText + 1
  /\ UNCHANGED <<config, limit, idleSeconds, armed, mapVars, disk, conn, inMap, events, nRun, wire,
                 sockState, closeCalls, workQueue, wpc, wframe, nBinary>>

\* HandleTextMessage: UpdateActivityTime, then the state check and the
\* validation of the payload; a Begin that is refused ends here
BeginCheck ==
  /\ cpc = "begin_check"
  /\ UpdateActivityTime
  /\ LET w == HandleStartTranscription(World(conn), cargs[1], "ok")
     IN IF w.c.state_ = "STARTED" /\ ~InvalidStateForStart(conn)
          THEN /\ conn' = [conn EXCEPT !.client_config_ = w.c.client_config_]
               /\ cpc' = "begin_create"
               /\ UNCHANGED <<events, wire, disk, cargs>>
          ELSE /\ Emit(w)
               /\ cpc' = "idle"
               /\ cargs' = << >>
  /\ UNCHANGED <<config, limit, armed, mapVars, inMap, nRun, sockState, closeCalls,
                 workQueue, wpc, wframe, nText, nBinary>>

\* the VAD, the recognizer and the punctuator are created and assigned
BeginCreate ==
  /\ cpc = "begin_create"
  /\ conn' = CreateAll(World(conn)).c
  /\ cpc' = "begin_started"
  /\ UNCHANGED <<config, limit, idleSeconds, armed, mapVars, disk, inMap, events, nRun, wire,
                 sockState, closeCalls, cargs, workQueue, wpc, wframe, nText, nBinary>>

\* the Started response and state_ = STARTED
BeginStarted ==
  /\ cpc = "begin_started"
  /\ Emit(StartReply(World(conn), cargs[1]))
  /\ cpc' = "idle"
  /\ cargs' = << >>
  /\ UNCHANGED <<config, limit, idleSeconds, armed, mapVars, inMap, nRun, sockState, closeCalls,
                 workQueue, wpc, wframe, nText, nBinary>>

BeginSteps ==
  \/ \E payload \in BeginPayloads : BeginLookup(payload)
  \/ BeginCheck
  \/ BeginCreate
  \/ BeginStarted

\* text frame that fails to parse, lacks header or name, or has another name
InvalidStep(kind) ==
  /\ CanDeliver
  /\ nText < MaxText
  /\ Emit(SendError(World(conn), InvalidTextStatus(kind)))
  /\ nText' = nText + 1
  /\ UpdateActivityTime
  /\ UNCHANGED <<config, limit, armed, mapVars, inMap, nRun, sockState, closeCalls, cpc, cargs,
                 workQueue, wpc, wframe, nBinary>>

OnMessageInvalid == \E kind \in InvalidTextKinds : InvalidStep(kind)

\* text frame whose header name is not a JSON string
OnMessageBadName == InvalidStep("NameNotString")

\* the arguments HandleStopTranscription reads for its SentenceEnd
StopArgs(c) ==
  IF c.current_sentence_.active
    THEN << [index |-> c.current_sentence_.index,
             time_ms |-> SamplesToMs(c.total_samples_),
             begin_time |-> c.current_sentence_.begin_time,
             result |-> c.current_sentence_.result] >>
    ELSE << >>

\* a state check that compares with the wrong state
TranscriptionNotStarted_wrongState(c) == c.state_ = "CLOSED"

\* HandleStopTranscription: if (state_ == ConnectionState::CONNECTED)
TranscriptionNotStarted(c) == c.state_ = "CONNECTED"

\* text frame {name: End}, first part of HandleStopTranscription: the
\* state check, the drain under buffer_mutex_, and the unlocked reads of
\* current_sentence_ and total_samples_
OnMessageEnd ==
  /\ CanDeliver
  /\ nText < MaxText
  /\ IF TranscriptionNotStarted(conn)
       THEN /\ Emit(SendError(World(conn), ERR_TRANSCRIPTION_NOT_STARTED))
            /\ UNCHANGED <<cpc, cargs>>
       ELSE \E w \in (IF conn.state_ = "PROCESSING" /\ conn.audio_buffer_ # <<>>
                        THEN ProcessAudioBuffer(World(conn))
                        ELSE {World(conn)}) :
              /\ Emit(w)
              /\ cargs' = StopArgs(w.c)
              /\ cpc' = "stop"
  /\ nText' = nText + 1
  /\ UpdateActivityTime
  /\ UNCHANGED <<config, limit, armed, mapVars, inMap, nRun, sockState, closeCalls,
                 workQueue, wpc, wframe, nBinary>>

\* ZAsrServer::Close: ws_server_.close, called on the calling thread
ServerClose(reason) ==
  /\ closeCalls' = Append(closeCalls, reason)
  /\ sockState' = IF sockState = "open" THEN "closing" ELSE sockState

\* second part of HandleStopTranscription: SentenceEnd with the arguments
\* read, Completed, and the entry of Close(); when Close() returns early
\* the socket is closed at once
StopFinish ==
  /\ cpc = "stop"
  /\ \E ok \in PunctAnswers(conn) :
       LET w0 == World(conn)
           w1 == IF cargs # << >>
                   THEN SendSentenceEnd(w0, cargs[1].index, cargs[1].time_ms,
                                        cargs[1].begin_time, cargs[1].result, ok)
                   ELSE w0
           w2 == SendTranscriptionCompleted(w1)
       IN IF CloseReturnsEarly(conn)
            THEN /\ Emit(w2)
                 /\ ServerClose("Transcription completed")
                 /\ cpc' = "idle"
            ELSE /\ Emit(CloseBegin(w2))
                 /\ cpc' = "stop_close"
                 /\ UNCHANGED <<sockState, closeCalls>>
  /\ cargs' = << >>
  /\ UNCHANGED <<config, limit, idleSeconds, armed, mapVars, inMap, nRun, workQueue, wpc, wframe,
                 nText, nBinary>>

\* the rest of Close() inside HandleStopTranscription, then
\* server_->Close(hdl_, normal, "Transcription completed")
StopClose ==
  /\ cpc = "stop_close"
  /\ \E ok \in PunctAnswers(conn) : Emit(CloseRest(World(conn), ok))
  /\ ServerClose("Transcription completed")
  /\ cpc' = "idle"
  /\ UNCHANGED <<config, limit, idleSeconds, armed, mapVars, inMap, nRun, cargs, workQueue, wpc, wframe,
                 nText, nBinary>>

\* binary frame: OnMessage posts HandleBinaryMessage to the work executor
OnMessageBinary ==
  /\ CanDeliver
  /\ nBinary < MaxBinary
  /\ \E bytes \in FrameBytes :
       workQueue' = Append(workQueue, [id |-> nBinary + 1, bytes |-> bytes])
  /\ nBinary' = nBinary + 1
  /\ UNCHANGED <<config, limit, idleSeconds, armed, mapVars, disk, conn, inMap, events, nRun, wire, sockState, closeCalls,
                 cpc, cargs, wpc, wframe, nText>>

\* a lookup that finds every handle
Contains_always == TRUE

\* ZAsrServer::Contains(hdl)
Contains == inMap

\* a send task posted by ZAsrServer::SendMessage runs on the control thread
SendTask ==
  /\ cpc = "idle"
  /\ ConnRuns
  /\ nRun < Len(events)
  /\ nRun' = nRun + 1
  /\ IF ~Contains THEN UNCHANGED <<wire, sockState, closeCalls>>
     ELSE IF sockState = "open"
       THEN /\ wire' = Append(wire, events[nRun + 1])
            /\ UNCHANGED <<sockState, closeCalls>>
       ELSE /\ ServerClose("Send failed")
            /\ UNCHANGED wire
  /\ UNCHANGED <<config, limit, idleSeconds, armed, mapVars, disk, conn, inMap, events, cpc, cargs, workQueue, wpc, wframe,
                 nText, nBinary>>

\* the library reports the connection closed (the client went away, or the
\* closing handshake ended): OnClose calls the session's Close() and then
\* erases the handle from the map
OnClose ==
  /\ cpc = "idle"
  /\ inMap
  /\ sockState' = "closed"
  /\ IF CloseReturnsEarly(conn)
       THEN /\ inMap' = FALSE
            /\ UNCHANGED <<conn, events, wire, disk, cpc>>
       ELSE /\ Emit(CloseBegin(World(conn)))
            /\ cpc' = "onclose_close"
            /\ UNCHANGED inMap
  /\ UNCHANGED <<config, limit, idleSeconds, armed, mapVars, nRun, closeCalls, cargs, workQueue, wpc, wframe,
                 nText, nBinary>>

\* the rest of Close() inside OnClose, then connections_.erase(hdl)
OnCloseFinish ==
  /\ cpc = "onclose_close"
  /\ \E ok \in PunctAnswers(conn) : Emit(CloseRest(World(conn), ok))
  /\ inMap' = FALSE
  /\ cpc' = "idle"
  /\ UNCHANGED <<config, limit, idleSeconds, armed, mapVars, nRun, sockState, closeCalls, cargs, workQueue, wpc,
                 wframe, nText, nBinary>>

\* ------------------------------------------------ worker: one frame
NoFrame == [id |-> 0, bytes |-> 0]

\* a state check that lets a session that was never started take audio
WrongStateForAudio_closedOnly(c) == c.state_ \in {"CLOSING", "CLOSED"}

\* if (state_ != STARTED && state_ != PROCESSING)
WrongStateForAudio(c) == c.state_ \notin {"STARTED", "PROCESSING"}

\* The posted task starts on a free worker: HandleBinaryMessage up to the
\* sample count.  (Workers are interchangeable: the lowest free one runs.)
WorkerStart(t) ==
  /\ wpc[t] = "idle"
  /\ WorkRuns
  /\ \A u \in Workers : u < t => wpc[u] # "idle"
  /\ workQueue # << >>
  /\ UpdateActivityTime
  /\ LET f == Head(workQueue)
     IN /\ workQueue' = Tail(workQueue)
        /\ IF ~conn.is_active_
             THEN UNCHANGED <<conn, events, wire, disk, wpc, wframe>>
           ELSE IF WrongStateForAudio(conn)
             THEN /\ Emit(SendError(World(conn),
                                    ERR_TRANSCRIPTION_NOT_STARTED_OR_WRONG_STATE))
                  /\ UNCHANGED <<wpc, wframe>>
           ELSE IF NumSamples(f.bytes) = 0
             THEN UNCHANGED <<conn, events, wire, disk, wpc, wframe>>
           ELSE /\ wpc' = [wpc EXCEPT ![t] = "append"]
                /\ wframe' = [wframe EXCEPT ![t] = f]
                /\ UNCHANGED <<conn, events, wire, disk>>
  /\ UNCHANGED <<config, limit, armed, mapVars, inMap, nRun, sockState, closeCalls, cpc, cargs,
                 nText, nBinary>>

\* under buffer_mutex_: append the samples, advance the counters
AppendSamples(c, f) ==
  LET n == NumSamples(f.bytes)
      total == c.total_samples_ + n
  IN [c EXCEPT !.audio_buffer_ = @ \o [i \in 1..n |-> f.id],
               !.total_samples_ = total,
               !.total_ms_ = SamplesToMs(total)]

WorkerAppend(t) ==
  /\ wpc[t] = "append"
  /\ conn' = AppendSamples(conn, wframe[t])
  /\ wpc' = [wpc EXCEPT ![t] = "setstate"]
  /\ UNCHANGED <<config, limit, idleSeconds, armed, mapVars, disk, inMap, events, nRun, wire, sockState, closeCalls, cpc, cargs,
                 workQueue, wframe, nText, nBinary>>

\* if (state_ == STARTED) state_ = PROCESSING, without a lock
WorkerSetState(t) ==
  /\ wpc[t] = "setstate"
  /\ conn' = IF conn.state_ = "STARTED"
               THEN [conn EXCEPT !.state_ = "PROCESSING"] ELSE conn
  /\ wpc' = [wpc EXCEPT ![t] = "process"]
  /\ UNCHANGED <<config, limit, idleSeconds, armed, mapVars, disk, inMap, events, nRun, wire, sockState, closeCalls, cpc, cargs,
                 workQueue, wframe, nText, nBinary>>

\* ProcessAudioBuffer under buffer_mutex_
WorkerProcess(t) ==
  /\ wpc[t] = "process"
  /\ \E w \in ProcessAudioBuffer(World(conn)) : Emit(w)
  /\ wpc' = [wpc EXCEPT ![t] = "idle"]
  /\ wframe' = [wframe EXCEPT ![t] = NoFrame]
  /\ UNCHANGED <<config, limit, idleSeconds, armed, mapVars, inMap, nRun, sockState, closeCalls, cpc, cargs,
                 workQueue, nText, nBinary>>

\* The pipeline reaches a call into the VAD or the recognizer library:
\* none of the early returns of ProcessAudioBuffer and of the mode is taken
\* and, with a VAD, a whole window is buffered.
PipelineCallsLibrary(c) ==
  /\ c.is_active_
  /\ c.audio_buffer_ # << >>
  /\ IF c.use_online_recognizer_ THEN c.online_recognizer_
     ELSE c.offline_recognizer_ /\ c.vad_ /\ VadLoopCond(World(c))

\* What the session is when the first library call of the pipeline throws:
\* CreateStream of the online recognizer and AcceptWaveform of the VAD come
\* before any assignment, AcceptWaveform of an online stream that exists
\* comes after the samples were accumulated for the sentence.
ThrowAtFirstCall(c) ==
  IF c.use_online_recognizer_ /\ c.online_stream_
    THEN [c EXCEPT !.current_sentence_audio_ = @ \o c.audio_buffer_]
    ELSE c

\* The pipeline throws inside HandleBinaryMessage: the catch of the posted
\* task sends Failed 41040009 and the task ends.
WorkerThrow(t) ==
  /\ wpc[t] = "process"
  /\ PipelineCallsLibrary(conn)
  /\ Emit(SendError(World(ThrowAtFirstCall(conn)), ERR_PROCESSING_AUDIO))
  /\ wpc' = [wpc EXCEPT ![t] = "idle"]
  /\ wframe' = [wframe EXCEPT ![t] = NoFrame]
  /\ UNCHANGED <<config, limit, idleSeconds, armed, mapVars, inMap, nRun, sockState, closeCalls, cpc, cargs,
                 workQueue, nText, nBinary>>

\* ------------------------------------------------------- the reaper
\* a timeout test that never fires
IsTimeout_never(elapsed_seconds) == FALSE

\* ZAsrConnection::IsTimeout: elapsed > timeout_seconds, in whole seconds
IsTimeout(elapsed_seconds) == elapsed_seconds > TimeoutSeconds

\* the positions of a worker thread inside CheckTimeouts
ReaperPcs == {"reap_close", "reap_rest", "reap_ws"}

\* The timer fires on a free thread of the work executor and CheckTimeouts
\* scans the map under connections_mutex_ (which OnClose holds while it
\* closes the session).  A session that timed out is erased from the map;
\* otherwise the timer is armed again for one second, after which at least
\* one more second has passed since the last activity (the count saturates
\* above the timeout).
ReaperScan(t) ==
  /\ armed
  /\ wpc[t] = "idle"
  /\ WorkRuns
  /\ \A u \in Workers : u < t => wpc[u] # "idle"
  /\ cpc # "onclose_close"
  /\ IF inMap /\ IsTimeout(idleSeconds)
       THEN /\ inMap' = FALSE
            /\ armed' = FALSE
            /\ wpc' = [wpc EXCEPT ![t] = "reap_close"]
            /\ UNCHANGED idleSeconds
       ELSE /\ IF inMap
                 THEN \E e \in (idleSeconds + 1)..(TimeoutSeconds + 1) :
                        idleSeconds' = e
                 ELSE UNCHANGED idleSeconds
            /\ UNCHANGED <<inMap, armed, wpc>>
  /\ UNCHANGED <<config, limit, mapVars, disk, conn, events, nRun, wire, sockState, closeCalls, cpc, cargs,
                 workQueue, wframe, nText, nBinary>>

\* connection->Close() with the map unlocked: the early return and
\* state_ = CLOSING
ReaperClose(t) ==
  /\ wpc[t] = "reap_close"
  /\ IF CloseReturnsEarly(conn)
       THEN /\ wpc' = [wpc EXCEPT ![t] = "reap_ws"]
            /\ UNCHANGED <<conn, events, wire, disk>>
       ELSE /\ Emit(CloseBegin(World(conn)))
            /\ wpc' = [wpc EXCEPT ![t] = "reap_rest"]
  /\ UNCHANGED <<config, limit, idleSeconds, armed, mapVars, inMap, nRun, sockState, closeCalls, cpc, cargs,
                 workQueue, wframe, nText, nBinary>>

\* the rest of Close() inside CheckTimeouts
ReaperCloseRest(t) ==
  /\ wpc[t] = "reap_rest"
  /\ \E ok \in PunctAnswers(conn) : Emit(CloseRest(World(conn), ok))
  /\ wpc' = [wpc EXCEPT ![t] = "reap_ws"]
  /\ UNCHANGED <<config, limit, idleSeconds, armed, mapVars, inMap, nRun, sockState, closeCalls, cpc, cargs,
                 workQueue, wframe, nText, nBinary>>

\* Close(hdl, normal, "Connection timeout") under the map lock, then the
\* timer is armed again (stop_requested_ is false)
ReaperWsClose(t) ==
  /\ wpc[t] = "reap_ws"
  /\ cpc # "onclose_close"
  /\ ServerClose("Connection timeout")
  /\ armed' = TRUE
  /\ wpc' = [wpc EXCEPT ![t] = "idle"]
  /\ UNCHANGED <<config, limit, idleSeconds, mapVars, disk, conn, inMap, events, nRun, wire, cpc, cargs,
                 workQueue, wframe, nText, nBinary>>

\* ------------------------------------------------------------ Stop
\* Stop() runs in the signal handler, here while the control thread waits
\* for its next event.  It sets stop_requested_ and cancels the timer, takes
\* the sessions out of the map and clears the map.
StopBegin ==
  /\ spc = "running"
  /\ cpc = "idle"
  /\ armed' = FALSE
  /\ inMap' = FALSE
  /\ connections_' = {}
  /\ spc' = IF inMap THEN "close" ELSE "empty"
  /\ UNCHANGED <<config, limit, idleSeconds, refused, dropped, storeVars, conn, events, nRun, wire, sockState,
                 closeCalls, cpc, cargs, workQueue, wpc, wframe, nText, nBinary>>

\* connection->Close() of the session taken out of the map: the early
\* return and state_ = CLOSING
StopCloseSession ==
  /\ spc = "close"
  /\ IF CloseReturnsEarly(conn)
       THEN /\ spc' = "closed"
            /\ UNCHANGED <<conn, events, wire, disk>>
       ELSE /\ Emit(CloseBegin(World(conn)))
            /\ spc' = "close_rest"
  /\ UNCHANGED <<config, limit, idleSeconds, armed, connections_, refused, dropped, toolVars, inMap, nRun,
                 sockState, closeCalls, cpc, cargs, workQueue, wpc, wframe, nText, nBinary>>

\* the rest of Close() inside Stop()
StopCloseRest ==
  /\ spc = "close_rest"
  /\ \E ok \in PunctAnswers(conn) : Emit(CloseRest(World(conn), ok))
  /\ spc' = "closed"
  /\ UNCHANGED <<config, limit, idleSeconds, armed, connections_, refused, dropped, toolVars, inMap, nRun,
                 sockState, closeCalls, cpc, cargs, workQueue, wpc, wframe, nText, nBinary>>

\* io_conn_.stop(); io_work_.stop(): no posted task and no handler starts
\* any more
StopIo ==
  /\ spc \in {"closed", "empty"}
  /\ spc' = "join"
  /\ UNCHANGED <<sessionVars, connections_, refused, dropped, storeVars>>

\* thread.join() of every worker: each returns from run() when the handler
\* it is in has ended
StopJoin ==
  /\ spc = "join"
  /\ \A t \in Workers : wpc[t] = "idle"
  /\ spc' = "stopped"
  /\ UNCHANGED <<sessionVars, connections_, refused, dropped, storeVars>>

StopStep == StopBegin \/ StopCloseSession \/ StopCloseRest \/ StopIo \/ StopJoin

\* ------------------------------------------------- the session map
\* the connections that may open besides the one whose session is modelled
Handles == 1..MaxConnections

\* connections_.size()
MapSize == Cardinality(connections_) + (IF inMap THEN 1 ELSE 0)

\* a limit test that admits one connection too many
MapFull_offByOne(size) == size > MaxConnections

\* if (connections_.size() >= config_.max_connections)
MapFull(size) == size >= MaxConnections

\* OnOpen: a connection past the limit is closed and gets no session
OnOpen(h) ==
  /\ cpc = "idle"
  /\ h \notin connections_
  /\ \A r \in refused : r.hdl # h
  /\ IF MapFull(MapSize)
       THEN /\ refused' = refused \cup {[hdl |-> h, code |-> "normal",
                                          reason |-> "Too many connections"]}
            /\ UNCHANGED connections_
       ELSE /\ connections_' = connections_ \cup {h}
            /\ UNCHANGED refused
  /\ UNCHANGED <<dropped, spc, storeVars, sessionVars>>

\* OnClose of another connection: its session, if it has one, is closed
\* and connections_.erase(hdl)
MapOnClose(h) ==
  /\ cpc = "idle"
  /\ h \in connections_ \/ \E r \in refused : r.hdl = h
  /\ connections_' = connections_ \ {h}
  /\ refused' = { r \in refused : r.hdl # h }
  /\ UNCHANGED <<dropped, spc, storeVars, sessionVars>>

\* OnMessage for a handle that has no session: GetConnection returns null
OnMessageUnknown(h) ==
  /\ cpc = "idle"
  /\ \E r \in refused : r.hdl = h
  /\ dropped < limit
  /\ dropped' = dropped + 1
  /\ UNCHANGED <<connections_, refused, spc, storeVars, sessionVars>>

\* ------------------------------------------------------ specification
\* punctuator: what the punctuation model does when it is called
Configs ==
  [recognizer_type : RecognizerTypes, enable_punctuation : {FALSE},
   punctuator : {"works"}, enable_speaker_identification : {FALSE},
   auto_track_new_speakers : {FALSE}]

\* servers with a punctuation model, one that works or one whose calls
\* throw, and with speaker identification
TextConfigs ==
  [recognizer_type : RecognizerTypes, enable_punctuation : BOOLEAN,
   punctuator : {"works", "throws"}, enable_speaker_identification : BOOLEAN,
   auto_track_new_speakers : {FALSE}]

\* servers with speaker identification, tracking new speakers or not
SidConfigs ==
  [recognizer_type : RecognizerTypes, enable_punctuation : {FALSE},
   punctuator : {"works"}, enable_speaker_identification : {TRUE},
   auto_track_new_speakers : BOOLEAN]

\* no command of the voice-print tool runs or has run
NoCommand ==
  [pc |-> "shell", cmd |-> "none", arg |-> << >>, ret |-> << >>, listed |-> {},
   before |-> NoStore, pre_add |-> NoStore, added |-> << >>, runs |-> 0]

\* the operation and what it returned
Called(op, ret) == [NoCommand EXCEPT !.cmd = op, !.ret = ret]

\* ------------------------------------------------- the two mutexes
\* the threads that take connections_mutex_ or buffer_mutex_
ControlThread == <<"control", 0>>

MainThread == <<"main", 0>>

NoThread == <<"none", 0>>

WorkerThreads(nworkers) == {<<"worker", t>> : t \in 1..nworkers}

LockThreads == DOMAIN locks.prog

\* no mutex is held, no handler runs, the session is processing audio
Unlocked(nworkers) ==
  [owner |-> [connections_mutex_ |-> NoThread, buffer_mutex_ |-> NoThread],
   depth |-> [connections_mutex_ |-> 0, buffer_mutex_ |-> 0],
   prog |-> [t \in {ControlThread, MainThread} \cup WorkerThreads(nworkers)
               |-> << >>],
   is_active_ |-> TRUE,
   handles |-> TRUE,
   state_ |-> "PROCESSING",
   posted |-> FALSE,
   stop_requested_ |-> FALSE]

\* a connection has just been accepted: OnOpen created its session; the
\* server runs nworkers worker threads and the client sends nframes frames
SessionInit(configs, nworkers, nframes) ==
  /\ config \in configs
  /\ conn = NewConnection
  /\ inMap = TRUE
  /\ events = << >>
  /\ nRun = 0
  /\ wire = << >>
  /\ sockState = "open"
  /\ closeCalls = << >>
  /\ cpc = "idle"
  /\ cargs = << >>
  /\ workQueue = << >>
  /\ wpc = [t \in 1..nworkers |-> "idle"]
  /\ wframe = [t \in 1..nworkers |-> NoFrame]
  /\ nText = 0
  /\ nBinary = 0
  /\ limit = nframes
  /\ idleSeconds = 0
  /\ armed = TRUE
  /\ connections_ = {}
  /\ refused = {}
  /\ dropped = 0
  /\ spc = "running"
  /\ locks = Unlocked(nworkers)

\* ... and no voice-print tool runs
InitFor(configs, nworkers, nframes) ==
  /\ SessionInit(configs, nworkers, nframes)
  /\ disk = EnrolledStore
  /\ db = [manager |-> NewDatabase, identifier |-> NewDatabase]
  /\ cli = NoCommand

InitWith(nworkers, nframes) == InitFor(Configs, nworkers, nframes)

Init == InitWith(NumWorkers, MaxFrames)

\* The send path only consumes `events`: no action of Next reads nRun or
\* wire, so Next alone yields every behaviour of the session, the workers
\* and the event order; NextSend adds the posted send tasks.
Next ==
  \/ OnMessageBegin
  \/ OnMessageInvalid
  \/ OnMessageEnd
  \/ StopFinish
  \/ StopClose
  \/ OnMessageBinary
  \/ OnClose
  \/ OnCloseFinish
  \/ \E t \in Workers : WorkerStart(t)
  \/ \E t \in Workers : WorkerAppend(t)
  \/ \E t \in Workers : WorkerSetState(t)
  \/ \E t \in Workers : WorkerProcess(t)

NextSend == Next \/ SendTask

Spec == Init /\ [][Next]_vars

SpecSend == Init /\ [][NextSend]_vars

\* A short exchange with a client that also sends frames whose header name
\* is not a string.
InitShort == InitWith(NumWorkers, ShortFrames)

NextShort ==
  \/ Next
  \/ OnMessageBadName

SpecShort == InitShort /\ [][NextShort]_vars

\* A server with one more worker thread, whose library calls may throw.
InitPool == InitWith(NumWorkers + 1, PoolFrames)

NextPool ==
  \/ Next
  \/ \E t \in Workers : WorkerThrow(t)

SpecPool == InitPool /\ [][NextPool]_vars

\* A server whose reaper timer runs.
InitReap == InitWith(NumWorkers, ReapFrames)

ReaperStep ==
  \E t \in Workers :
    ReaperScan(t) \/ ReaperClose(t) \/ ReaperCloseRest(t) \/ ReaperWsClose(t)

WorkerStep ==
  \E t \in Workers :
    WorkerStart(t) \/ WorkerAppend(t) \/ WorkerSetState(t) \/ WorkerProcess(t)

\* a handler that has begun on the control thread runs to its end
ControlStep == StopFinish \/ StopClose \/ OnCloseFinish

NextReap ==
  \/ Next
  \/ ReaperStep

\* The executors keep running: while the timer can fire, a worker can go on
\* or a handler can finish, one of them eventually does.  Nothing is assumed
\* of the client.
Fairness == WF_vars(ReaperStep \/ WorkerStep \/ ControlStep)

SpecReap == InitReap /\ [][NextReap]_vars /\ Fairness

\* ... with the send tasks its events post to the control executor
NextReapSend ==
  \/ NextReap
  \/ SendTask

SpecReapSend == InitReap /\ [][NextReapSend]_vars

\* A server that is stopped by a signal.
NextStop ==
  \/ NextReapSend
  \/ StopStep

SpecStop == InitReap /\ [][NextStop]_vars

\* A client that sends a valid Begin, audio and End to a server that
\* punctuates and identifies speakers.
InitText == InitFor(TextConfigs, NumWorkers, TextFrames)

BeginValid ==
  BeginStep([fmt |-> {}, rate |-> {}, session_id |-> {}, bad_type |-> {}], "ok")

NextText ==
  \/ BeginValid
  \/ OnMessageEnd
  \/ StopFinish
  \/ StopClose
  \/ OnMessageBinary
  \/ OnClose
  \/ OnCloseFinish
  \/ WorkerStep

SpecText == InitText /\ [][NextText]_vars

\* A server whose reaper may run while a Begin is being handled.
NextRace ==
  \/ NextReap
  \/ BeginSteps

SpecRace == InitReap /\ [][NextRace]_vars

\* The session map: other connections open, send frames and close while
\* the modelled connection answers invalid text frames and closes.
InitMap == InitWith(NumWorkers, MapFrames)

NextMap ==
  \/ \E h \in Handles : OnOpen(h)
  \/ \E h \in Handles : MapOnClose(h)
  \/ \E h \in Handles : OnMessageUnknown(h)
  \/ OnMessageInvalid
  \/ OnClose
  \/ OnCloseFinish

SpecMap == InitMap /\ [][NextMap]_vars

\* ============================================================ claims
Failed(status) == Ev("Failed", status, 0, 0, 0, "", "")

\* The automaton of  Started (SentenceBegin Result* SentenceEnd)* Completed?
RegexStep(q, name) ==
  CASE q = "init"     /\ name = "Started"       -> "open"
    [] q = "open"     /\ name = "SentenceBegin" -> "sentence"
    [] q = "open"     /\ name = "Completed"     -> "done"
    [] q = "sentence" /\ name = "Result"        -> "sentence"
    [] q = "sentence" /\ name = "SentenceEnd"   -> "open"
    [] OTHER                                    -> "bad"

RECURSIVE RegexRun(_, _, _)
RegexRun(q, seq, i) ==
  IF i > Len(seq) THEN q
  ELSE IF seq[i].name = "Failed" THEN RegexRun(q, seq, i + 1)
  ELSE RegexRun(RegexStep(q, seq[i].name), seq, i + 1)

\* C1: the non-Failed events emitted for a session while its connection is
\* mapped form a prefix of a word of
\* Started (SentenceBegin Result* SentenceEnd)* Completed? : no second
\* Completed, nothing after Completed, every SentenceBegin closed once.
C1_EventOrder == inMap => RegexRun("init", events, 1) # "bad"

\* C2: once HandleStopTranscription has asked the library to close the
\* socket, the Completed event has already been passed to the socket.
C2_CompletedSentBeforeClose ==
  (\E k \in DOMAIN closeCalls : closeCalls[k] = "Transcription completed")
    => \E i \in DOMAIN wire : wire[i].name = "Completed"

\* C3: a session emits at most one Completed in total, and an End handled
\* by a session that is already Closing or Closed emits no event.
C3_SecondEndSilent ==
  [][ /\ Cardinality({ i \in DOMAIN events' : events'[i].name = "Completed" }) <= 1
      /\ (cpc = "stop" /\ CloseReturnsEarly(conn)) => events' = events ]_vars

\* A step that handles an inbound frame: a text frame is taken (or the End
\* taken before is finished), or a worker takes a binary frame off the queue.
FrameStep ==
  \/ nText' = nText + 1
  \/ cpc = "stop"
  \/ Len(workQueue') < Len(workQueue)

\* HandleStopTranscription has gone past its state check and entered Close()
EndHandled ==
  \/ cpc = "stop_close"
  \/ \E k \in DOMAIN closeCalls : closeCalls[k] = "Transcription completed"

\* C4: once a session has handled End and is Closing or Closed, handling an
\* inbound frame (Begin, End, any other text frame, a binary frame) emits no
\* event at all.
C4_ClosedIsSilent ==
  [][ (conn.state_ \in {"CLOSING", "CLOSED"} /\ EndHandled /\ FrameStep)
        => events' = events ]_vars

\* C5: the k-th SentenceBegin has idx k, and every Result and SentenceEnd
\* carries the idx of the SentenceBegin emitted last before it.
LastBeginBefore(i) ==
  { j \in 1..(i - 1) :
      /\ events[j].name = "SentenceBegin"
      /\ \A k \in (j + 1)..(i - 1) : events[k].name # "SentenceBegin" }

C5_SentenceIndices ==
  \A i \in DOMAIN events :
    /\ events[i].name = "SentenceBegin" =>
         events[i].idx =
           Cardinality({ j \in 1..i : events[j].name = "SentenceBegin" })
    /\ events[i].name \in {"Result", "SentenceEnd"} =>
         \E j \in LastBeginBefore(i) : events[j].idx = events[i].idx

\* C6: the time fields of SentenceBegin, Result and SentenceEnd never
\* decrease along the order in which the events were handed to the sender.
Timed(e) == e.name \in {"SentenceBegin", "Result", "SentenceEnd"}

C6_TimeMonotonic ==
  \A i, j \in DOMAIN events :
    (i < j /\ Timed(events[i]) /\ Timed(events[j])) =>
      events[i].time <= events[j].time

\* C7: a binary frame of N bytes appended by a Started or Processing session
\* advances total_samples_ by floor(N/2) and leaves total_ms_ equal to
\* total_samples_ divided by 16; a frame of fewer than 2 bytes changes
\* nothing of the session (a Started session stays Started) and emits nothing.
C7_SampleCounter ==
  [][ \A t \in Workers :
        /\ (conn.is_active_ /\ conn.state_ \in {"STARTED", "PROCESSING"} /\
             WorkerStart(t)) =>
              /\ conn' = conn
              /\ events' = events
              /\ IF Head(workQueue).bytes < 2
                   THEN wpc' = wpc
                   ELSE wpc'[t] = "append" /\ wframe'[t] = Head(workQueue)
        /\ (wpc[t] = "append" /\ wpc'[t] # "append") =>
              /\ conn'.total_samples_ =
                   conn.total_samples_ + (wframe[t].bytes \div 2)
              /\ conn'.total_ms_ = conn'.total_samples_ \div 16
              /\ Len(conn'.audio_buffer_) =
                   Len(conn.audio_buffer_) + (wframe[t].bytes \div 2)
              /\ conn'.state_ = conn.state_ ]_vars

\* an odd frame has been appended after an earlier frame
C7_Witness ==
  \E t \in Workers :
    /\ wpc[t] = "setstate"
    /\ wframe[t].bytes = 33
    /\ conn.total_samples_ = 32
    /\ conn.total_ms_ = 2

\* C8: a Begin handled in a state other than Connected emits exactly one
\* Failed 1001 and changes nothing of the session: state, session id,
\* recognizer handles, buffers and the running sentence stay as they were.
C8_BeginInWrongState ==
  [][ (conn.state_ # "CONNECTED" /\ nText' # nText /\ OnMessageBegin)
        => /\ events' = Append(events, Failed(1001))
           /\ conn' = conn ]_vars

\* a second Begin was refused while audio of the transcription is buffered
C8_Witness ==
  /\ conn.state_ = "PROCESSING"
  /\ conn.total_samples_ > 0
  /\ conn.session_id_ # ""
  /\ events # << >>
  /\ events[1].name = "Started"
  /\ events[Len(events)] = Failed(1001)

\* what a refused Begin leaves of a Connected session: everything but the
\* client configuration it parsed
RefusedBegin(status) ==
  /\ events' = Append(events, Failed(status))
  /\ conn' = [conn EXCEPT !.client_config_ = conn'.client_config_]
  /\ conn'.state_ = "CONNECTED"

\* an End that follows a refused Begin yields Failed 1005
EndAfterRefusedBegin ==
  (events # << >> /\ events[Len(events)] \in {Failed(1002), Failed(1003)} /\
     OnMessageEnd)
    => events' = Append(events, Failed(1005))

FmtGiven(p) == p.fmt # {} /\ p.fmt # {"pcm"}

RateGiven(p) == p.rate # {} /\ p.rate # {16000}

C10_EndBeforeBegin ==
  [][ (conn.state_ = "CONNECTED" /\ nText' # nText /\ OnMessageEnd)
        => /\ events' = Append(events, Failed(1005))
           /\ conn' = conn
           /\ cpc' = "idle"
           /\ sockState' = sockState
           /\ closeCalls' = closeCalls ]_vars

\* the first frame of the connection was an End
C10_Witness ==
  /\ events = << Failed(1005) >>
  /\ conn = NewConnection
  /\ inMap
  /\ sockState = "open"
  /\ closeCalls = << >>

\* C11: a binary frame taken by a worker for a session in Connected emits
\* exactly Failed 1006 and changes nothing of the session (state, sample
\* counter, audio buffer), whatever the length of the frame; the worker is
\* free again.
C11_BinaryInConnected ==
  [][ \A t \in Workers :
        (conn.state_ = "CONNECTED" /\ Len(workQueue') < Len(workQueue) /\
         WorkerStart(t))
          => /\ events' = Append(events, Failed(1006))
             /\ conn' = conn
             /\ wpc' = wpc ]_vars

\* two frames were refused by a session that is still as it was constructed
C11_Witness ==
  /\ conn = NewConnection
  /\ nBinary = 2
  /\ workQueue = << >>
  /\ events = << Failed(1006), Failed(1006) >>

\* what an invalid text frame leaves of the session: everything
InvalidAnswer(kind, status) ==
  (nText' # nText /\ InvalidStep(kind))
    => /\ events' = Append(events, Failed(status))
       /\ conn' = conn
       /\ cpc' = cpc
       /\ sockState' = sockState

\* C12 as stated: in every session state a text frame that fails to parse
\* emits exactly one Failed 2001, and a frame that parses, has a header and
\* a name that is neither Begin nor End emits exactly one Failed 2005; the
\* session is left as it was.
C12_InvalidText ==
  [][ /\ InvalidAnswer("BadJson", 2001)
      /\ InvalidAnswer("NameNotString", 2005)
      /\ InvalidAnswer("Other", 2005) ]_vars

\* C12 amended: the frame answered with Failed 2005 has a name that is a
\* JSON string other than Begin and End.
C12_InvalidTextStringName ==
  [][ /\ InvalidAnswer("BadJson", 2001)
      /\ InvalidAnswer("Other", 2005) ]_vars

\* both kinds were answered by a session that had been started
C12_Witness ==
  /\ conn.state_ = "STARTED"
  /\ Len(events) = 3
  /\ events[1].name = "Started"
  /\ events[2] = Failed(2001)
  /\ events[3] = Failed(2005)

\* a payload ClientConfig accepts
ValidPayload(p) ==
  p.bad_type = {} /\ p.fmt \subseteq {"pcm"} /\ p.rate \subseteq {16000}

\* C14: a valid Begin on a Connected session whose VAD or recognizer
\* constructor throws emits exactly Failed 1004 and leaves the session
\* Connected; a valid Begin whose constructors succeed, also one that
\* follows such a failure, emits Started and makes the session Started.
C14_InitFailureAndRetry ==
  [][ \A p \in BeginPayloads, o \in CreateOutcomes :
        (conn.state_ = "CONNECTED" /\ nText' # nText /\ ValidPayload(p) /\
         BeginStep(p, o))
          => IF o = "ok"
               THEN /\ Len(events') = Len(events) + 1
                    /\ events'[Len(events')].name = "Started"
                    /\ conn'.state_ = "STARTED"
               ELSE /\ events' = Append(events, Failed(1004))
                    /\ conn'.state_ = "CONNECTED"
                    /\ conn'.session_id_ = conn.session_id_ ]_vars

\* the recognizer constructor threw after the VAD was built, and the retry
\* reached Started
C14_Witness ==
  /\ config.recognizer_type = "kSenseVoice"
  /\ conn.state_ = "STARTED"
  /\ conn.vad_ /\ conn.offline_recognizer_
  /\ Len(events) = 2
  /\ events[1] = Failed(1004)
  /\ events[2].name = "Started"

\* C13: when the pipeline throws while a worker handles a binary frame,
\* exactly one Failed is emitted, the session is moved to Closing (or on to
\* Closed) and the close of its socket is asked for.
C13_PipelineErrorCloses ==
  [][ \A t \in Workers :
        (wpc[t] = "process" /\ WorkerThrow(t))
          => /\ events' = Append(events, Failed(ERR_PROCESSING_AUDIO))
             /\ conn'.state_ \in {"CLOSING", "CLOSED"}
             /\ Len(closeCalls') > Len(closeCalls) ]_vars

\* C17: the control thread never runs the audio pipeline: the step in which
\* it takes an End frame past the state check leaves the session, its audio
\* buffer included, as it was and emits nothing.
C17_ControlNeverDecodes ==
  [][ (cpc = "idle" /\ cpc' = "stop") => (conn' = conn /\ events' = events) ]_vars

\* C18: the samples in a session's audio buffer are in the order in which
\* their frames arrived on the connection.
C18_ArrivalOrder ==
  \A i, j \in DOMAIN conn.audio_buffer_ :
    i < j => conn.audio_buffer_[i] <= conn.audio_buffer_[j]

\* C15: the session map never holds more than max_connections entries; a
\* connection opened while it holds max_connections entries gets no session
\* and is closed with the normal-close status, and a frame arriving on such a
\* connection emits no event and touches no session.
C15_MapBounded ==
  /\ MapSize <= MaxConnections
  /\ \A r \in refused : r.hdl \notin connections_ /\ r.code = "normal"

C15_RefusedIsSilent ==
  [][ /\ \A h \in Handles :
           (MapSize = MaxConnections /\ refused' # refused /\ OnOpen(h))
             => /\ connections_' = connections_
                /\ \E r \in refused' : r.hdl = h /\ r.code = "normal"
      /\ dropped' # dropped
           => (events' = events /\ conn' = conn /\ workQueue' = workQueue) ]_vars

C15_MapLimit == []C15_MapBounded /\ C15_RefusedIsSilent

\* the map is full, a further connection was refused and sent frames, and
\* the modelled connection has answered a frame of its own
C15_Witness ==
  /\ MapSize = MaxConnections
  /\ refused # {}
  /\ dropped = 2
  /\ Len(events) = 1

\* C16: whatever is passed to the socket is passed by a send task running
\* on the control thread between two handlers: the step leaves every worker
\* (handling a frame or running the reaper) where it was, emits nothing and
\* does not touch the session.
C16_SendOnControlExecutor ==
  [][ wire' # wire
        => /\ cpc = "idle" /\ cpc' = "idle"
           /\ nRun' = nRun + 1
           /\ wire' = Append(wire, events[nRun + 1])
           /\ wpc' = wpc
           /\ events' = events
           /\ conn' = conn ]_vars

\* events produced by a worker's pipeline and by the reaper's Close() were
\* posted, and those posted while the handle was mapped were sent
C16_Witness ==
  /\ \E k \in DOMAIN closeCalls : closeCalls[k] = "Connection timeout"
  /\ \E i \in DOMAIN events : events[i].name = "SentenceBegin"
  /\ \E i \in DOMAIN wire : wire[i].name = "SentenceBegin"
  /\ nRun = Len(events)

\* the socket was closed by the reaper
TimedOut == \E k \in DOMAIN closeCalls : closeCalls[k] = "Connection timeout"

\* the session is out of the map and Closed, its socket closed by the reaper
\* or, before the reaper got to it, by the client
Reaped ==
  /\ ~inMap
  /\ conn.state_ = "CLOSED"
  /\ TimedOut \/ sockState = "closed"

\* C19: with the reaper timer and the threads scheduled fairly, a session
\* that gets no further frame is eventually reaped: it is Closed, out of the
\* map and its socket closed with "Connection timeout" (unless the client
\* closed first); the timer is unarmed only while CheckTimeouts is closing a
\* session and is armed again after it.
C19_EventuallyReaped ==
  /\ <>[](Reaped /\ armed)
  /\ [](~armed => \E t \in Workers : wpc[t] \in ReaperPcs)
  /\ [][ (TimedOut' /\ ~TimedOut) => (~inMap /\ armed') ]_vars

\* the reaper has closed the socket of a session that had been started
C19_Witness ==
  /\ TimedOut
  /\ sockState = "closing"
  /\ ~inMap
  /\ conn.state_ = "CLOSED"
  /\ armed
  /\ \E i \in DOMAIN events : events[i].name = "Started"

\* C20: a send task that runs when the session's entry is out of the map
\* passes nothing to the socket, and the reaper's Close() emits only after
\* the entry was removed: its SentenceEnd and Completed never reach the
\* client.
C20_NoSendAfterRemoval ==
  [][ /\ ~inMap => wire' = wire
      /\ \A t \in Workers :
           (wpc[t] \in ReaperPcs /\ wpc'[t] # wpc[t]) => (~inMap /\ wire' = wire)
      /\ (events' # events /\ \E t \in Workers : wpc[t] \in ReaperPcs)
           => ~inMap ]_vars

\* the reaper closed a session with a sentence under way: SentenceEnd and
\* Completed were posted, every send task has run, neither was sent
C20_Witness ==
  /\ TimedOut
  /\ nRun = Len(events)
  /\ \E i \in DOMAIN events : events[i].name = "SentenceEnd"
  /\ \E i \in DOMAIN events : events[i].name = "Completed"
  /\ \A i \in DOMAIN wire : wire[i].name \notin {"SentenceEnd", "Completed"}
  /\ \E i \in DOMAIN wire : wire[i].name = "SentenceBegin"

\* C21: when Stop() stops the control executor after it closed the session
\* it took out of the map, a session that had started transcription is
\* Closed and its Completed has been passed to the socket; when Stop() has
\* returned the map is empty and every worker thread has been joined.
C21_StopDeliversCompleted ==
  [][ /\ (spc = "closed" /\ spc' = "join" /\
           \E i \in DOMAIN events : events[i].name = "Started")
          => /\ conn.state_ = "CLOSED"
             /\ \E i \in DOMAIN wire : wire[i].name = "Completed"
      /\ spc' = "stopped"
          => /\ ~inMap /\ connections_ = {}
             /\ \A t \in Workers : wpc[t] = "idle" ]_vars

\* the recognizer objects a session holds
HoldsResources(c) ==
  c.vad_ \/ c.offline_recognizer_ \/ c.online_recognizer_
    \/ c.offline_stream_ \/ c.online_stream_

\* C22: a session whose state is Closed holds no VAD, no recognizer and no
\* stream, whichever thread ran Close() and whatever handler of the session
\* ran on another thread meanwhile.
C22_ClosedHoldsNothing == conn.state_ = "CLOSED" => ~HoldsResources(conn)

\* the names of the events emitted, in order
EventNames == [i \in DOMAIN events |-> events[i].name]

\* Begin was accepted, the audio sent went through the VAD, which never
\* reported speech (no sentence was ever opened), and the handler of End is
\* about to finish with nothing else left to run
SilentExchange ==
  /\ config.recognizer_type = "kSenseVoice"
  /\ nText = 2
  /\ events # << >> /\ events[1].name = "Started"
  /\ \A i \in DOMAIN events : events[i].name # "Failed"
  /\ conn.vad_offset_ >= VadWindowSize
  /\ conn.sentence_counter_ = 0
  /\ cpc = "stop_close"
  /\ workQueue = << >>
  /\ \A t \in Workers : wpc[t] = "idle"

\* C23: in offline mode with VAD, Begin, then audio in which the VAD never
\* reports speech, then End yield exactly Started and Completed, in that
\* order.
C23_SilentAudio ==
  [][(SilentExchange /\ cpc' = "idle")
       => EventNames' = <<"Started", "Completed">>]_vars

\* events i < j are two Results of one sentence with no Result of that
\* sentence between them
NextPartial(i, j) ==
  /\ i < j
  /\ events[i].name = "Result" /\ events[j].name = "Result"
  /\ events[i].idx = events[j].idx
  /\ \A k \in (i + 1)..(j - 1) :
       ~(events[k].name = "Result" /\ events[k].idx = events[i].idx)

\* C24: the text of a Result differs from the text of the Result emitted
\* before it for the same sentence, in online and in offline mode (checked
\* for the frames handled by the workers, before any End).
C24_ResultOnlyOnChange ==
  nText = 1 =>
    \A i, j \in DOMAIN events :
      NextPartial(i, j) => events[i].text # events[j].text

\* the hypotheses a decoder returns, and the empty one of a sentence that
\* was never decoded
Hypotheses == Texts \cup {""}

\* the session's punctuator is configured and its calls succeed
PunctuatorWorks ==
  config.enable_punctuation /\ config.punctuator = "works"

\* C25: the text of every SentenceEnd is the punctuator's output for the
\* hypothesis when a punctuator is configured and its call succeeds, and the
\* hypothesis itself when there is no punctuator, the hypothesis is empty or
\* the punctuator throws; the text of a Result is never punctuated.
C25_PunctuationOnSentenceEnd ==
  \A i \in DOMAIN events :
    /\ events[i].name = "SentenceEnd" =>
         IF PunctuatorWorks
           THEN events[i].text \in {""} \cup { Punctuated(t) : t \in Texts }
           ELSE events[i].text \in Hypotheses
    /\ events[i].name = "Result" => events[i].text \in Hypotheses

\* a SentenceEnd with a punctuated text follows a Result with the bare one,
\* and the End of the exchange added a SentenceEnd with an empty text
C25_Witness ==
  /\ PunctuatorWorks
  /\ \E i, j, k \in DOMAIN events :
       /\ i < j /\ j < k
       /\ events[i].name = "Result" /\ events[i].text = "a"
       /\ events[j].name = "SentenceEnd" /\ events[j].text = Punctuated("a")
       /\ events[k].name = "SentenceEnd" /\ events[k].text = ""

\* the step is a run of the recognition pipeline
PipelineRun ==
  \/ \E t \in Workers : wpc[t] = "process" /\ wpc'[t] = "idle"
  \/ cpc = "idle" /\ cpc' = "stop"

\* C26: a Result or SentenceEnd carries speaker_id / speaker only if the
\* speaker identifier ran on the audio of that sentence and named a speaker.
\* The identifier runs when the pipeline ends a sentence, so no Result
\* carries the fields, and no SentenceEnd sent by End or Close() does.
C26_SpeakerOnlyWhenIdentified ==
  [][\A i \in (Len(events) + 1)..Len(events') :
       /\ events'[i].name = "Result" => events'[i].speaker_id = << >>
       /\ (events'[i].name = "SentenceEnd" /\ ~PipelineRun)
            => events'[i].speaker_id = << >>
       /\ events'[i].speaker_id # << >> => config.enable_speaker_identification]_vars

\* ---------------------------------------- one VoicePrintDatabase object
\* ids found in an index file, some written by hand
PersistedSpeakers ==
  {<<"speaker-", "2">>, <<"speaker-", "0", "3">>, <<"speaker-", "x">>}

PersistedUnknown == {<<"unknown-", "2">>}

\* ids a caller passes to AddVoicePrint
GivenIds == {<<"speaker-", "1">>, <<"speaker-", "4">>}

\* a directory whose index holds these ids, with their embedding files
StoreOf(vps, us) ==
  [has_index |-> TRUE, voice_prints |-> vps, unknown_speakers |-> us,
   embeddings |-> vps \cup us]

\* the server of the machine the voice-print tool runs on
ToolConfigs == {c \in Configs : c.recognizer_type = "kSenseVoice"}

\* some index file
InitDb ==
  /\ SessionInit(ToolConfigs, NumWorkers, 0)
  /\ \E vps \in SUBSET PersistedSpeakers : disk = StoreOf(vps, PersistedUnknown)
  /\ db = [manager |-> NewDatabase, identifier |-> NewDatabase]
  /\ cli = NoCommand

DbLoad ==
  /\ db' = [db EXCEPT !.manager = Load(@, disk)]
  /\ cli' = Called("Load", << >>)
  /\ UNCHANGED <<disk, sessionVars, connections_, refused, dropped, spc, locks>>

DbAddVoicePrint(id) ==
  /\ LET r == AddVoicePrint(db.manager, disk, id)
     IN db' = [db EXCEPT !.manager = r.db] /\ disk' = r.disk
  /\ cli' = Called("AddVoicePrint", id)
  /\ UNCHANGED <<sessionVars, connections_, refused, dropped, spc, locks>>

DbRemoveVoicePrint(id) ==
  /\ LET r == RemoveVoicePrint(db.manager, disk, id)
     IN db' = [db EXCEPT !.manager = r.db] /\ disk' = r.disk
  /\ cli' = Called("RemoveVoicePrint", id)
  /\ UNCHANGED <<sessionVars, connections_, refused, dropped, spc, locks>>

DbGenerateSpeakerId ==
  /\ db.manager.next_speaker_num_ <= MaxIdNum
  /\ LET g == GenerateSpeakerId(db.manager)
     IN db' = [db EXCEPT !.manager = g.db] /\ cli' = Called("GenerateSpeakerId", g.id)
  /\ UNCHANGED <<disk, sessionVars, connections_, refused, dropped, spc, locks>>

DbGenerateUnknownSpeakerId ==
  /\ db.manager.next_unknown_num_ <= MaxIdNum
  /\ LET g == GenerateUnknownSpeakerId(db.manager)
     IN db' = [db EXCEPT !.manager = g.db]
        /\ cli' = Called("GenerateUnknownSpeakerId", g.id)
  /\ UNCHANGED <<disk, sessionVars, connections_, refused, dropped, spc, locks>>

DbAddUnknownSpeaker ==
  /\ db.manager.next_unknown_num_ <= MaxIdNum
  /\ LET r == AddUnknownSpeaker(db.manager, disk)
     IN db' = [db EXCEPT !.manager = r.db] /\ disk' = r.disk
        /\ cli' = Called("AddUnknownSpeaker", r.id)
  /\ UNCHANGED <<sessionVars, connections_, refused, dropped, spc, locks>>

NextDb ==
  \/ DbLoad
  \/ \E id \in GivenIds : DbAddVoicePrint(id)
  \/ \E id \in GivenIds \cup PersistedSpeakers : DbRemoveVoicePrint(id)
  \/ DbGenerateSpeakerId
  \/ DbGenerateUnknownSpeakerId
  \/ DbAddUnknownSpeaker

SpecDb == InitDb /\ [][NextDb]_vars


\* the id spells the number n after the prefix, with or without a leading zero
Spells(id, prefix, n) ==
  \/ id = <<prefix>> \o to_string(n)
  \/ id = <<prefix, "0">> \o to_string(n)

\* the numbers the counters of one run can reach
IdNums == 0..(MaxIdNum + 4)

\* C27: an id that GenerateSpeakerId or GenerateUnknownSpeakerId has just
\* returned is not an id of its namespace in the object, and right after Load
\* each counter is greater than every number a persisted speaker-N
\* (resp. unknown-N) id spells.
C27_GeneratedIdsAreFresh ==
  /\ cli.cmd = "GenerateSpeakerId" => cli.ret \notin db.manager.voice_prints_
  /\ cli.cmd = "GenerateUnknownSpeakerId" => cli.ret \notin db.manager.unknown_speakers_
  /\ cli.cmd = "Load" =>
       \A n \in IdNums :
         /\ (\E id \in disk.voice_prints : Spells(id, "speaker-", n))
              => db.manager.next_speaker_num_ > n
         /\ (\E id \in disk.unknown_speakers : Spells(id, "unknown-", n))
              => db.manager.next_unknown_num_ > n

\* speaker-03 was loaded, speaker-4 was added by hand, and the generator
\* skipped it and returned speaker-5
C27_Witness ==
  /\ cli.cmd = "GenerateSpeakerId"
  /\ cli.ret = <<"speaker-", "5">>
  /\ {<<"speaker-", "0", "3">>, <<"speaker-", "4">>} \subseteq db.manager.voice_prints_
  /\ <<"speaker-", "0", "3">> \in disk.voice_prints
  /\ db.manager.next_speaker_num_ = 6

\* ------------------------------------------- runs of the voice-print tool
\* ids the user names in remove --speaker
NamedIds == {<<"speaker-", "1">>, <<"speaker-", "2">>}

\* main: the manager is built and initialized; its own database and the
\* identifier's database each load the index
CliStart(cmd, arg) ==
  /\ cli.pc = "shell"
  /\ cli.runs < MaxRuns
  /\ db' = [manager |-> Load(NewDatabase, disk),
            identifier |-> Load(NewDatabase, disk)]
  /\ cli' = [cli EXCEPT !.pc = "opened", !.cmd = cmd, !.arg = arg, !.ret = << >>,
                        !.listed = {}, !.before = disk]
  /\ UNCHANGED <<disk, sessionVars, connections_, refused, dropped, spc, locks>>

\* add: ZSpeakerIdentifier::AddSpeaker on the identifier's database, or ""
\* when no embedding could be extracted
CliAdd(extracted) ==
  IF ~extracted
    THEN /\ cli' = [cli EXCEPT !.pc = "acted", !.ret = << >>]
         /\ UNCHANGED <<db, disk>>
    ELSE LET g == GenerateSpeakerId(db.identifier)
             r == AddVoicePrint(g.db, disk, g.id)
         IN /\ db' = [db EXCEPT !.identifier = r.db]
            /\ disk' = r.disk
            /\ cli' = [cli EXCEPT !.pc = "acted", !.ret = g.id]

\* remove: VoicePrintManager::RemoveSpeaker on the manager's database
CliRemove ==
  LET r == RemoveVoicePrint(db.manager, disk, cli.arg)
  IN /\ db' = [db EXCEPT !.manager = r.db]
     /\ disk' = r.disk
     /\ cli' = [cli EXCEPT !.pc = "acted", !.ret = IF r.ok THEN cli.arg ELSE << >>]

\* list: VoicePrintManager::ListSpeakers reads the manager's database
CliList ==
  /\ cli' = [cli EXCEPT !.pc = "acted", !.listed = db.manager.voice_prints_]
  /\ UNCHANGED <<db, disk>>

CliAct ==
  /\ cli.pc = "opened"
  /\ CASE cli.cmd = "add" -> \E extracted \in BOOLEAN : CliAdd(extracted)
       [] cli.cmd = "remove" -> CliRemove
       [] OTHER -> CliList
  /\ UNCHANGED <<sessionVars, connections_, refused, dropped, spc, locks>>

\* main returns: ~Impl destroys identifier_ and with it the identifier's
\* database, then db_
CliExit ==
  /\ cli.pc = "acted"
  /\ disk' = Destroy(db.manager, Destroy(db.identifier, disk))
  /\ db' = [manager |-> NewDatabase, identifier |-> NewDatabase]
  /\ cli' = [cli EXCEPT
               !.pc = "shell",
               !.runs = @ + 1,
               !.pre_add = IF cli.cmd = "add" /\ cli.ret # << >> THEN cli.before ELSE @,
               !.added = IF cli.cmd = "add" THEN cli.ret ELSE << >>]
  /\ UNCHANGED <<sessionVars, connections_, refused, dropped, spc, locks>>

\* a directory never written, or one whose index holds one speaker
InitCli ==
  /\ SessionInit(ToolConfigs, NumWorkers, 0)
  /\ disk \in {NoStore, StoreOf({<<"speaker-", "1">>}, {})}
  /\ db = [manager |-> NewDatabase, identifier |-> NewDatabase]
  /\ cli = NoCommand

NextCli ==
  \/ CliStart("add", << >>)
  \/ \E id \in NamedIds : CliStart("remove", id)
  \/ CliStart("list", << >>)
  \/ CliAct
  \/ CliExit

SpecCli == InitCli /\ [][NextCli]_vars

\* a run of add has reported the id cli.ret and main returns
AddReturns == cli.pc = "acted" /\ cli.cmd = "add" /\ cli.ret # << >> /\ cli'.pc = "shell"

\* a run of remove on the id the run before it added has reported success
\* and main returns
RemoveOfAddedReturns ==
  /\ cli.pc = "acted" /\ cli.cmd = "remove" /\ cli.added # << >>
  /\ cli.arg = cli.added /\ cli.ret = cli.arg
  /\ cli'.pc = "shell"

\* C28: after add and then remove of the returned id, each its own run, the
\* index and the embedding files are those from before the add: a later
\* list does not load the id and its embedding file is gone.
C28_AddThenRemove ==
  [][RemoveOfAddedReturns =>
       /\ cli.added \notin Load(NewDatabase, disk').voice_prints_
       /\ cli.added \notin disk'.embeddings
       /\ disk'.voice_prints = cli.pre_add.voice_prints
       /\ disk'.embeddings = cli.pre_add.embeddings]_vars

\* C29: after a run of add that returned X, loading the store yields the ids
\* that were persisted before the run plus X, for an empty store and for
\* one that held speakers.
C29_AddPersists ==
  [][AddReturns =>
       Load(NewDatabase, disk').voice_prints_ = cli.before.voice_prints \cup {cli.ret}]_vars

\* ------------------------------------- sessions that identify speakers
InitSid == InitFor(SidConfigs, NumWorkers, TextFrames)

SpecSid == InitSid /\ [][NextText]_vars

\* C30: no step of a session (Begin, a binary frame, the pipeline ending a
\* sentence with speaker identification, End, Close) changes the index or
\* an embedding file of the voice-print directory.
C30_ServerNeverWrites == [][disk' = disk]_vars

\* ------------------------------------------ sessions that decode with a VAD
OfflineConfigs == {c \in Configs : c.recognizer_type = "kSenseVoice"}

InitVad == InitFor(OfflineConfigs, NumWorkers, VadFrames)

SpecVad == InitVad /\ [][NextText]_vars

Max0(n) == IF n > 0 THEN n ELSE 0

\* the step runs ProcessOfflineMode on a buffer in which the VAD finds no
\* speech and completes no segment
SilentPipelineRun ==
  /\ conn.is_active_ /\ conn.vad_ /\ conn.offline_recognizer_
  /\ conn.audio_buffer_ # << >>
  /\ \/ \E t \in Workers : wpc[t] = "process" /\ wpc'[t] = "idle"
     \/ cpc = "idle" /\ cpc' = "stop" /\ conn.state_ = "PROCESSING"
  /\ ~conn.speech_started_ /\ ~conn'.speech_started_
  /\ conn'.sentence_counter_ = conn.sentence_counter_
  /\ conn'.audio_buffer_ # << >>

OfflinePipelineRun ==
  /\ conn.is_active_ /\ conn.vad_ /\ conn.offline_recognizer_
  /\ conn.audio_buffer_ # << >>
  /\ \/ \E t \in Workers : wpc[t] = "process" /\ wpc'[t] = "idle"
     \/ cpc = "idle" /\ cpc' = "stop" /\ conn.state_ = "PROCESSING"

\* v is what is left of u when samples are removed from its front
IsSuffix(v, u) ==
  /\ Len(v) <= Len(u)
  /\ \A i \in 1..Len(v) : v[i] = u[Len(u) - Len(v) + i]

\* C32: after a pipeline step of a session with a VAD that ends with
\* speech_started_ false, the buffer holds at most 10 windows of samples,
\* and they are the most recent ones of the buffer the step began with.
C32_SilenceIsBounded ==
  [][(OfflinePipelineRun /\ ~conn'.speech_started_) =>
       /\ Len(conn'.audio_buffer_) <= TrimWindows * VadWindowSize
       /\ IsSuffix(conn'.audio_buffer_, conn.audio_buffer_)]_vars

\* the buffer was trimmed: it is full, samples of the first frame went and
\* the last sample is one of the second frame
C32_Witness ==
  /\ conn.vad_ /\ ~conn.speech_started_
  /\ Len(conn.audio_buffer_) = TrimWindows * VadWindowSize
  /\ conn.total_samples_ > Len(conn.audio_buffer_)
  /\ conn.audio_buffer_[1] = 1
  /\ conn.audio_buffer_[Len(conn.audio_buffer_)] = 2
  /\ \A t \in Workers : wpc[t] = "idle"

\* --------------------------------- sessions with a streaming recognizer
OnlineConfigs == {c \in Configs : c.recognizer_type = "kStreamingZipformer"}

InitOnline == InitFor(OnlineConfigs, NumWorkers, OnlineFrames)

SpecOnline == InitOnline /\ [][NextText]_vars

\* the step runs ProcessOnlineMode to its end
OnlinePipelineRun ==
  /\ conn.is_active_ /\ conn.use_online_recognizer_ /\ conn.online_recognizer_
  /\ conn.audio_buffer_ # << >>
  /\ \/ \E t \in Workers : wpc[t] = "process" /\ wpc'[t] = "idle"
     \/ cpc = "idle" /\ cpc' = "stop" /\ conn.state_ = "PROCESSING"

\* the hypothesis of sentence k when event i is emitted: the text of its
\* last Result, or the empty text when it has none
HypothesisAt(evs, i, k) ==
  LET rs == { j \in 1..(i - 1) : evs[j].name = "Result" /\ evs[j].idx = k }
  IN IF rs = {} THEN ""
     ELSE evs[CHOOSE j \in rs : \A x \in rs : x <= j].text

\* C33: in online mode a pipeline step that emits SentenceEnd k (an
\* endpoint) emits right after it SentenceBegin k+1 with the same time,
\* leaves the decoder stream reset and the sentence audio empty, and the
\* SentenceEnd carries the hypothesis, the empty text if there is none;
\* every pipeline step leaves a sentence active, and one stays active while
\* the session has its stream.
C33_EndpointOpensNext ==
  /\ [](conn.online_stream_ => conn.current_sentence_.active)
  /\ [][OnlinePipelineRun =>
         /\ conn'.current_sentence_.active
         /\ \A i \in (Len(events) + 1)..Len(events') :
              events'[i].name = "SentenceEnd" =>
                /\ i + 1 = Len(events')
                /\ events'[i + 1].name = "SentenceBegin"
                /\ events'[i + 1].idx = events'[i].idx + 1
                /\ events'[i + 1].time = events'[i].time
                /\ events'[i].text = HypothesisAt(events', i, events'[i].idx)
                /\ conn'.online_text = ""
                /\ conn'.current_sentence_audio_ = << >>
                /\ conn'.current_sentence_.index = events'[i].idx + 1
                /\ conn'.current_sentence_.result = ""]_vars

\* sentence 1 ended with its hypothesis, sentence 2 ended at an endpoint
\* without one, and sentence 3 is open
C33_Witness ==
  /\ conn.use_online_recognizer_ /\ conn.online_stream_
  /\ conn.current_sentence_.active /\ conn.current_sentence_.index = 3
  /\ \E i, j \in DOMAIN events :
       /\ i < j /\ j + 1 \in DOMAIN events
       /\ events[i].name = "SentenceEnd" /\ events[i].idx = 1 /\ events[i].text = "a"
       /\ events[j].name = "SentenceEnd" /\ events[j].idx = 2 /\ events[j].text = ""
       /\ events[j + 1].name = "SentenceBegin" /\ events[j + 1].idx = 3
       /\ events[j + 1].time = events[j].time

\* C34: once state_ is CLOSED no step changes it, whichever way Close()
\* interleaves with HandleStartTranscription and HandleBinaryMessage.
C34_ClosedIsAbsorbing ==
  [][conn.state_ = "CLOSED" => conn'.state_ = "CLOSED"]_vars

\* ------------------------------------------------- lock order
\* A handler is the sequence of the steps it takes on the mutexes, on
\* is_active_, on state_ and on the recognition handles (vad_, the
\* recognizers and the decoder streams); both mutexes are recursive.
\* ZAsrServer::SendMessage with the send inside the calling thread
SendMessageSteps_inline == <<"lock connections_mutex_", "unlock connections_mutex_">>

\* ZAsrServer::SendMessage only posts a task to the control executor; the
\* task calls Contains(hdl), which takes connections_mutex_
SendMessageSteps == <<"post">>

\* Contains and GetConnection
ContainsSteps == <<"lock connections_mutex_", "unlock connections_mutex_">>

\* ProcessAudioBuffer: the is_active_ and recognizer checks and the pipeline
\* step, which emits its events, all under buffer_mutex_
ProcessAudioBufferSteps ==
  <<"lock buffer_mutex_", "check_active", "use">> \o SendMessageSteps
    \o <<"unlock buffer_mutex_">>

\* Close() that releases the handles without taking buffer_mutex_
CloseSteps_noLock ==
  <<"close_check", "close_mark", "deactivate">> \o SendMessageSteps
    \o <<"release", "closed">>

\* ZAsrConnection::Close: the early return, state_ = CLOSING,
\* is_active_ = false, the buffers cleared under buffer_mutex_, the final
\* events, the handles reset, state_ = CLOSED
CloseSteps ==
  <<"close_check", "close_mark", "deactivate",
    "lock buffer_mutex_", "unlock buffer_mutex_">> \o SendMessageSteps
    \o <<"release", "closed">>

\* OnOpen registers the session under connections_mutex_
OnOpenSteps == ContainsSteps

\* OnClose holds connections_mutex_ while the session closes
OnCloseSteps ==
  <<"lock connections_mutex_">> \o CloseSteps
    \o <<"unlock connections_mutex_">>

\* OnMessage with the End text frame of a processing session
OnMessageEndSteps ==
  ContainsSteps \o <<"lock buffer_mutex_">> \o ProcessAudioBufferSteps
    \o <<"unlock buffer_mutex_">> \o SendMessageSteps \o CloseSteps

\* OnMessage with a binary frame: the lookup, then the post to io_work_
OnMessageBinarySteps == ContainsSteps

\* the posted send task
SendTaskSteps == <<"take">> \o ContainsSteps

\* HandleBinaryMessage on a worker thread
HandleBinaryMessageSteps ==
  <<"enter", "lock buffer_mutex_", "unlock buffer_mutex_">>
    \o ProcessAudioBufferSteps

\* CheckTimeouts on a worker thread, for a session that timed out
CheckTimeoutsSteps ==
  <<"lock connections_mutex_", "unlock connections_mutex_">> \o CloseSteps
    \o <<"lock connections_mutex_", "unlock connections_mutex_">>

\* Stop copies the sessions under connections_mutex_ and closes them after
StopSteps == ContainsSteps \o CloseSteps

\* the handlers a thread may run
HandlersOf(t) ==
  IF t = ControlThread
    THEN {OnOpenSteps, OnCloseSteps, OnMessageEndSteps, OnMessageBinarySteps,
          SendTaskSteps}
    ELSE IF t = MainThread THEN {StopSteps}
    ELSE {HandleBinaryMessageSteps, CheckTimeoutsSteps}

MutexOf(step) ==
  IF step \in {"lock connections_mutex_", "unlock connections_mutex_"}
    THEN "connections_mutex_" ELSE "buffer_mutex_"

IsLock(step) == step \in {"lock connections_mutex_", "lock buffer_mutex_"}

IsUnlock(step) == step \in {"unlock connections_mutex_", "unlock buffer_mutex_"}

\* the steps from the first `step` on
RECURSIVE DropTo(_, _)
DropTo(steps, step) ==
  IF steps = << >> \/ Head(steps) = step THEN steps
  ELSE DropTo(Tail(steps), step)

\* thread t waits for a mutex another thread owns
Blocked(t) ==
  /\ locks.prog[t] # << >>
  /\ IsLock(Head(locks.prog[t]))
  /\ locks.owner[MutexOf(Head(locks.prog[t]))] \notin {NoThread, t}

\* the thread that owns the mutex t waits for
WaitsFor(t) == locks.owner[MutexOf(Head(locks.prog[t]))]

\* a thread starts a handler
LockStart(t, steps) ==
  /\ locks.prog[t] = << >>
  /\ steps \in HandlersOf(t)
  /\ steps = SendTaskSteps => locks.posted
  /\ steps = StopSteps => ~locks.stop_requested_
  /\ locks' = [locks EXCEPT !.prog[t] = steps,
                            !.stop_requested_ = @ \/ steps = StopSteps]

\* a thread takes the next step of its handler
LockStep(t) ==
  /\ locks.prog[t] # << >>
  /\ ~Blocked(t)
  /\ LET step == Head(locks.prog[t])
         rest == Tail(locks.prog[t])
         m == MutexOf(step)
     IN locks' =
          IF IsLock(step)
            THEN [locks EXCEPT !.owner[m] = t, !.depth[m] = @ + 1,
                               !.prog[t] = rest]
          ELSE IF IsUnlock(step)
            THEN [locks EXCEPT
                    !.owner[m] = IF locks.depth[m] = 1 THEN NoThread ELSE @,
                    !.depth[m] = @ - 1,
                    !.prog[t] = rest]
          ELSE IF step = "enter"
            THEN [locks EXCEPT
                    !.prog[t] = IF locks.is_active_ THEN rest ELSE << >>]
          ELSE IF step = "check_active"
            THEN [locks EXCEPT
                    !.prog[t] = IF locks.is_active_ /\ locks.handles THEN rest
                                ELSE DropTo(rest, "unlock buffer_mutex_")]
          ELSE IF step = "close_check"
            THEN [locks EXCEPT
                    !.prog[t] = IF locks.state_ \in {"CLOSING", "CLOSED"}
                                  THEN Tail(DropTo(rest, "closed"))
                                  ELSE rest]
          ELSE IF step = "close_mark"
            THEN [locks EXCEPT !.state_ = "CLOSING", !.prog[t] = rest]
          ELSE IF step = "deactivate"
            THEN [locks EXCEPT !.is_active_ = FALSE, !.prog[t] = rest]
          ELSE IF step = "release"
            THEN [locks EXCEPT !.handles = FALSE, !.prog[t] = rest]
          ELSE IF step = "closed"
            THEN [locks EXCEPT !.state_ = "CLOSED", !.prog[t] = rest]
          ELSE IF step = "post"
            THEN [locks EXCEPT !.posted = TRUE, !.prog[t] = rest]
          ELSE IF step = "take"
            THEN [locks EXCEPT !.posted = FALSE, !.prog[t] = rest]
          ELSE [locks EXCEPT !.prog[t] = rest]

LockVarsUnchanged ==
  UNCHANGED <<sessionVars, connections_, refused, dropped, spc, disk, db, cli>>

NextLock ==
  \/ \E t \in LockThreads : \E steps \in HandlersOf(t) :
       LockStart(t, steps) /\ LockVarsUnchanged
  \/ \E t \in LockThreads : LockStep(t) /\ LockVarsUnchanged

InitLock == InitFor(ToolConfigs, NumWorkers, 0)

SpecLock == InitLock /\ [][NextLock]_vars

\* C35: no two threads wait for each other on connections_mutex_ and
\* buffer_mutex_: a thread that waits for one of the two mutexes never waits
\* for a thread that waits for the other mutex, held by the first; and
\* while some handler is unfinished, some thread can take a step.
C35_NoLockCycle ==
  /\ \A t \in LockThreads :
       Blocked(t) => ~(Blocked(WaitsFor(t)) /\ WaitsFor(WaitsFor(t)) = t)
  /\ (\E t \in LockThreads : locks.prog[t] # << >>)
       => \E t \in LockThreads : locks.prog[t] # << >> /\ ~Blocked(t)

\* OnClose holds connections_mutex_ and waits for buffer_mutex_, which a
\* worker holds inside the pipeline, while the thread of Stop waits for
\* connections_mutex_
C35_Witness ==
  /\ Blocked(ControlThread)
  /\ locks.owner.connections_mutex_ = ControlThread
  /\ Blocked(MainThread)
  /\ \E t \in LockThreads :
       /\ t \notin {ControlThread, MainThread}
       /\ locks.owner.buffer_mutex_ = t
       /\ Head(locks.prog[t]) = "use"

\* C36: a thread inside a pipeline step (past the is_active_ check, under
\* buffer_mutex_) always finds the handles unreleased: Close() releases
\* them only after it got buffer_mutex_ with is_active_ already false.
C36_NoUseAfterRelease ==
  \A t \in LockThreads :
    (locks.prog[t] # << >> /\ Head(locks.prog[t]) = "use") => locks.handles

\* a worker is inside the pipeline step while Close(), on the control
\* thread, has cleared is_active_ and waits for buffer_mutex_
C36_Witness ==
  /\ ~locks.is_active_
  /\ locks.handles
  /\ Blocked(ControlThread)
  /\ Head(locks.prog[ControlThread]) = "lock buffer_mutex_"
  /\ \E t \in LockThreads :
       /\ t # ControlThread
       /\ locks.prog[t] # << >>
       /\ Head(locks.prog[t]) = "use"

\* a pipeline step was skipped by the is_active_ check under the mutex
C36_Skipped ==
  \E t \in LockThreads :
    /\ ~locks.is_active_
    /\ locks.owner.buffer_mutex_ = t
    /\ locks.prog[t] = <<"unlock buffer_mutex_">>

\* C37: every ws_server_.close call is made by the control thread: a step
\* that adds a close call is not a step of a worker thread (a worker's step
\* moves the worker's position), so the reaper does not close the socket
\* from the work executor.
C37_ClosesOnControlThread ==
  [][Len(closeCalls') > Len(closeCalls) => wpc' = wpc]_vars

\* C38: End does not overtake the binary frames of its session: in the step
\* in which HandleStopTranscription emits Completed, no binary frame that
\* arrived before the End frame and carries samples is still queued on the
\* work executor or in the hands of a worker thread.
C38_EndAfterFrames ==
  [][ ( /\ cpc = "stop"
        /\ Len(events') > Len(events)
        /\ events'[Len(events')].name = "Completed" )
      => ( /\ \A i \in DOMAIN workQueue : NumSamples(workQueue[i].bytes) = 0
           /\ \A t \in Workers : wpc[t] = "idle" ) ]_vars

\* C39: once Completed has been handed to the send path, no step of a
\* worker thread hands a SentenceBegin, Result or SentenceEnd of the session
\* to the send path.
C39_NoWorkerEventAfterCompleted ==
  [][ ( /\ \E i \in DOMAIN events : events[i].name = "Completed"
        /\ wpc' # wpc )
      => \A i \in (Len(events) + 1)..Len(events') :
           events'[i].name \notin {"SentenceBegin", "Result", "SentenceEnd"} ]_vars

\* ------------------------------------------------- two sessions, one store
\* The sessions of one server: each HandleStartTranscription constructs a
\* ZSpeakerIdentifier of its own, whose VoicePrintDatabase object is loaded
\* from the server's voice-print directory.  Here db holds, per session, that
\* object and the unknown-speaker ids the session was given.
Sessions == 1..MaxConnections

AutoTrackConfigs ==
  {c \in SidConfigs : c.auto_track_new_speakers /\ c.recognizer_type = "kSenseVoice"}

InitTwo ==
  /\ SessionInit(AutoTrackConfigs, NumWorkers, 0)
  /\ disk = EnrolledStore
  /\ db = [s \in Sessions |->
             [state_ |-> "CONNECTED", database_ |-> NewDatabase, added |-> {}]]
  /\ cli = NoCommand

TwoUnchanged ==
  UNCHANGED <<sessionVars, connections_, refused, dropped, spc, locks, cli>>

\* ZSpeakerIdentifier::Initialize inside HandleStartTranscription
SessionInitialize(s) ==
  /\ db[s].state_ = "CONNECTED"
  /\ db' = [db EXCEPT ![s].state_ = "STARTED",
                      ![s].database_ = Load(NewDatabase, disk)]
  /\ UNCHANGED disk
  /\ TwoUnchanged

\* a sentence of a speaker no enrolled voice print matches is finalized
SessionProcessSegment(s) ==
  /\ db[s].state_ = "STARTED"
  /\ db[s].database_.next_unknown_num_ <= MaxIdNum
  /\ LET w == [c |-> [speaker_identifier_ |-> db[s].database_],
               out |-> << >>, disk |-> disk]
         r == ProcessSegment(w, << >>)
     IN /\ db' = [db EXCEPT ![s].database_ = r.w.c.speaker_identifier_,
                            ![s].added = @ \cup {r.id}]
        /\ disk' = r.w.disk
  /\ TwoUnchanged

\* the session object is destroyed: ~VoicePrintDatabase saves the index
SessionDestroy(s) ==
  /\ db[s].state_ = "STARTED"
  /\ db' = [db EXCEPT ![s].state_ = "CLOSED"]
  /\ disk' = Destroy(db[s].database_, disk)
  /\ TwoUnchanged

NextTwo ==
  \/ \E s \in Sessions : SessionInitialize(s)
  \/ \E s \in Sessions : SessionProcessSegment(s)
  \/ \E s \in Sessions : SessionDestroy(s)

SpecTwo == InitTwo /\ [][NextTwo]_vars

\* C40: two sessions of one server never give the same unknown-N id to
\* their unknown-speaker records, so neither writes the embedding file or
\* the index entry of the other.
C40_UnknownIdsDiffer ==
  \A s, u \in Sessions : s # u => db[s].added \cap db[u].added = {}

====
